---- MODULE Spec2Model ----
(***************************************************************************)
(* Model of the text-repair engine of chat_server_demo:                    *)
(*   helper_functionality/latex.py        (math delimiter fixer, align)    *)
(*   helper_functionality/code_fences.py  (fence validator and repairer)   *)
(*                                                                         *)
(* A text is a sequence of one-character strings.  Indices into a text are *)
(* 0-based, as in the Python source; At(s, i) reads the character at the   *)
(* 0-based index i.                                                        *)
(***************************************************************************)
EXTENDS Integers, Sequences, FiniteSets, TLC

(***************************************************************************)
(* Bounds of the model.                                                    *)
(***************************************************************************)
\* the longest input text, counted in pieces of the vocabularies below
MaxPieces == 3

(***************************************************************************)
(* Strings as character sequences.                                         *)
(***************************************************************************)
At(s, i) == s[i + 1]

\* s[a:b] of Python, for 0 <= a <= b <= len(s)
Slice(s, a, b) == SubSeq(s, a + 1, b)

\* s.startswith(lit, i)
StartsWith(s, lit, i) ==
    /\ i >= 0
    /\ i + Len(lit) <= Len(s)
    /\ \A k \in 1..Len(lit) : s[i + k] = lit[k]

SetMin(S) == CHOOSE x \in S : \A y \in S : x <= y
SetMax(S) == CHOOSE x \in S : \A y \in S : x >= y

\* s.find(lit, p): the least index >= p where lit occurs, or -1
Find(s, lit, p) ==
    LET hits == {a \in p..(Len(s) - Len(lit)) : StartsWith(s, lit, a)}
    IN  IF hits = {} THEN -1 ELSE SetMin(hits)

\* lit in s
Contains(s, lit) == Find(s, lit, 0) >= 0

RECURSIVE Flat(_)
\* "".join(chunks)
Flat(chunks) ==
    IF chunks = <<>> THEN <<>> ELSE Head(chunks) \o Flat(Tail(chunks))

\* character classes of Python's re for the ASCII characters the model uses
Digits == {"0", "1", "2", "3", "4", "5", "6", "7", "8", "9"}
Lower == {"a", "b", "c", "d", "e", "f", "g", "h", "i", "j", "k", "l", "m",
          "n", "o", "p", "q", "r", "s", "t", "u", "v", "w", "x", "y", "z"}
Upper == {"A", "B", "C", "D", "E", "F", "G", "H", "I", "J", "K", "L", "M",
          "N", "O", "P", "Q", "R", "S", "T", "U", "V", "W", "X", "Y", "Z"}
IsDigit(c) == c \in Digits
IsAlnum(c) == c \in Digits \cup Lower \cup Upper
\* \w
IsWord(c) == IsAlnum(c) \/ c = "_"
\* \s
IsSpace(c) == c \in {" ", "\n", "\t", "\r"}

(***************************************************************************)
(* latex.py : class attributes of LaTeXFixer                               *)
(***************************************************************************)
BS == "\\"
TokLBrack == <<BS, "[">>
TokRBrack == <<BS, "]">>
TokLParen == <<BS, "(">>
TokRParen == <<BS, ")">>
TokDD == <<"$", "$">>
TokD == <<"$">>

\* _tokens, longest first
Tokens == <<TokLBrack, TokRBrack, TokLParen, TokRParen, TokDD, TokD>>
\* keys of _openers and of _closers
Openers == {TokLBrack, TokLParen, TokDD, TokD}
Closers == {TokRBrack, TokRParen, TokDD, TokD}
\* _matching
Matching(tok) ==
    CASE tok = TokLBrack -> TokRBrack
      [] tok = TokLParen -> TokRParen
      [] tok = TokDD -> TokDD
      [] tok = TokD -> TokD

\* the backtick character (SANY cannot lex it inside a string literal)
BT == "BACKTICK"
Fence3 == <<BT, BT, BT>>
BeginBrace == <<BS, "b", "e", "g", "i", "n", "{">>
EndBrace == <<BS, "e", "n", "d", "{">>
VerbLit == <<BS, "v", "e", "r", "b">>
NameVerbatim == <<"v", "e", "r", "b", "a", "t", "i", "m">>
NameLstlisting == <<"l", "s", "t", "l", "i", "s", "t", "i", "n", "g">>
NameMinted == <<"m", "i", "n", "t", "e", "d">>
VerbEnvNames == {NameVerbatim, NameLstlisting, NameMinted}

(***************************************************************************)
(* latex.py : LaTeXFixer._protected_spans.  Each regular expression is     *)
(* modelled by the set of the spans <<start, end>> that finditer yields    *)
(* when scanning from index p.                                             *)
(***************************************************************************)
RECURSIVE CodeFenceMatches(_, _)
\* _code_fence: three backticks, .*? with DOTALL, three backticks
CodeFenceMatches(s, p) ==
    LET a == Find(s, Fence3, p)
        b == IF a < 0 THEN -1 ELSE Find(s, Fence3, a + 3)
    IN  IF a < 0 \/ b < 0 THEN {}
        ELSE {<<a, b + 3>>} \cup CodeFenceMatches(s, b + 3)

\* the end of the match of _inline_code that starts at index a, or -1
InlineCodeEnd(s, a) ==
    LET stops == {b \in (a + 1)..(Len(s) - 1) : At(s, b) \in {BT, "\n"}}
    IN  IF stops = {} THEN -1
        ELSE IF At(s, SetMin(stops)) = BT THEN SetMin(stops) + 1 ELSE -1

RECURSIVE InlineCodeMatches(_, _)
\* _inline_code: a backtick, [^BT\n]*, a backtick
InlineCodeMatches(s, p) ==
    LET starts == {a \in p..(Len(s) - 1) :
                      At(s, a) = BT /\ InlineCodeEnd(s, a) >= 0}
    IN  IF starts = {} THEN {}
        ELSE LET a == SetMin(starts)
             IN  {<<a, InlineCodeEnd(s, a)>>}
                    \cup InlineCodeMatches(s, InlineCodeEnd(s, a))

\* the index of the first newline at or after a, or len(s)
LineEnd(s, a) ==
    LET nls == {b \in a..(Len(s) - 1) : At(s, b) = "\n"}
    IN  IF nls = {} THEN Len(s) ELSE SetMin(nls)

RECURSIVE CommentMatches(_, _)
\* _comment = "(?m)%[^\n]*$"
CommentMatches(s, p) ==
    LET starts == {a \in p..(Len(s) - 1) : At(s, a) = "%"}
    IN  IF starts = {} THEN {}
        ELSE LET a == SetMin(starts)
             IN  {<<a, LineEnd(s, a)>>} \cup CommentMatches(s, LineEnd(s, a))

\* the environment name that _verb_env_open matches at index a, or <<>>
VerbEnvNameAt(s, a) ==
    LET names == {nm \in VerbEnvNames :
                     StartsWith(s, BeginBrace \o nm, a)}
    IN  IF names = {} THEN <<>> ELSE CHOOSE nm \in names : TRUE

\* the end of the match of _verb_env_open at index a, or -1:
\* \\begin\{(verbatim|lstlisting|minted)(?:\*?)\b[^\}]*\}
VerbEnvOpenEnd(s, a) ==
    LET nm == VerbEnvNameAt(s, a)
        q == a + Len(BeginBrace) + Len(nm)
        close == Find(s, <<"}">>, q)
    IN  IF nm = <<>> \/ q >= Len(s) \/ IsWord(At(s, q)) \/ close < 0
        THEN -1 ELSE close + 1

RECURSIVE VerbEnvSpans(_, _)
\* lines 186-193: one span per match of _verb_env_open, up to the end of the
\* first \end{name} after it, or to the end of the text
VerbEnvSpans(s, p) ==
    LET starts == {a \in p..(Len(s) - 1) : VerbEnvOpenEnd(s, a) >= 0}
    IN  IF starts = {} THEN {}
        ELSE LET a == SetMin(starts)
                 mend == VerbEnvOpenEnd(s, a)
                 endlit == EndBrace \o VerbEnvNameAt(s, a) \o <<"}">>
                 close == Find(s, endlit, mend)
                 en == IF close >= 0 THEN close + Len(endlit) ELSE Len(s)
             IN  {<<a, en>>} \cup VerbEnvSpans(s, mend)

\* the end of the match of _verb_inline at index a, or -1:
\* \\verb(?P<d>[^A-Za-z0-9\s])(?:.*?)(?P=d)
VerbInlineEnd(s, a) ==
    IF ~(StartsWith(s, VerbLit, a) /\ a + 5 < Len(s)) THEN -1
    ELSE LET d == At(s, a + 5)
             stops == {b \in (a + 6)..(Len(s) - 1) : At(s, b) \in {d, "\n"}}
         IN  IF IsAlnum(d) \/ IsSpace(d) \/ stops = {} THEN -1
             ELSE IF At(s, SetMin(stops)) = d THEN SetMin(stops) + 1 ELSE -1

RECURSIVE VerbInlineMatches(_, _)
VerbInlineMatches(s, p) ==
    LET starts == {a \in p..(Len(s) - 1) : VerbInlineEnd(s, a) >= 0}
    IN  IF starts = {} THEN {}
        ELSE LET a == SetMin(starts)
             IN  {<<a, VerbInlineEnd(s, a)>>}
                    \cup VerbInlineMatches(s, VerbInlineEnd(s, a))

\* lines 175-196: every span collected, before sorting and merging
RawSpans(s) ==
    CodeFenceMatches(s, 0) \cup InlineCodeMatches(s, 0) \cup CommentMatches(s, 0)
        \cup VerbEnvSpans(s, 0) \cup VerbInlineMatches(s, 0)

\* tuple order of Python: by start, then by end
SpanLess(x, y) == x[1] < y[1] \/ (x[1] = y[1] /\ x[2] < y[2])

RECURSIVE SortSpans(_)
\* spans.sort()
SortSpans(S) ==
    IF S = {} THEN <<>>
    ELSE LET m == CHOOSE x \in S : \A y \in S \ {x} : SpanLess(x, y)
         IN  <<m>> \o SortSpans(S \ {m})

RECURSIVE MergeSpans(_, _)
\* lines 199-204: merge the sorted spans into the list merged
MergeSpans(sorted, merged) ==
    IF sorted = <<>> THEN merged
    ELSE LET sp == Head(sorted)
             last == merged[Len(merged)]
         IN  IF merged = <<>> \/ sp[1] > last[2]
             THEN MergeSpans(Tail(sorted), Append(merged, sp))
             ELSE MergeSpans(Tail(sorted),
                      [merged EXCEPT ![Len(merged)] =
                          <<last[1], IF last[2] >= sp[2] THEN last[2] ELSE sp[2]>>])

\* LaTeXFixer._protected_spans
ProtectedSpans(s) == MergeSpans(SortSpans(RawSpans(s)), <<>>)

\* LaTeXFixer._in_protected
InProtected(i, spans) ==
    \E k \in 1..Len(spans) : spans[k][1] <= i /\ i < spans[k][2]

(***************************************************************************)
(* latex.py : helpers of the scan                                          *)
(***************************************************************************)
RECURSIVE CountTrailingBackslashes(_)
\* LaTeXFixer._count_trailing_backslashes
CountTrailingBackslashes(prefix) ==
    IF prefix = <<>> \/ prefix[Len(prefix)] # BS THEN 0
    ELSE 1 + CountTrailingBackslashes(SubSeq(prefix, 1, Len(prefix) - 1))

RECURSIVE DigitRun(_, _)
\* the number of digits of s from index p on
DigitRun(s, p) ==
    IF p < Len(s) /\ IsDigit(At(s, p)) THEN 1 + DigitRun(s, p + 1) ELSE 0

RECURSIVE ThousandsEnd(_, _)
\* the end of the greedy match of (?:[.,]\d{3})* from index p
ThousandsEnd(s, p) ==
    IF p < Len(s) /\ At(s, p) \in {".", ","} /\ DigitRun(s, p + 1) >= 3
    THEN ThousandsEnd(s, p + 4) ELSE p

\* the end of the match of \$(\d{1,3}(?:[.,]\d{3})*|\d+)(?:[.,]\d+)? at
\* index i, or -1.  The first alternative matches whenever a digit follows
\* the dollar sign, and what follows it is optional, so the second one is
\* never tried.
CurrencyMatchEnd(s, i) ==
    IF ~(i < Len(s) /\ At(s, i) = "$" /\ DigitRun(s, i + 1) >= 1) THEN -1
    ELSE LET d == IF DigitRun(s, i + 1) >= 3 THEN 3 ELSE DigitRun(s, i + 1)
             g == ThousandsEnd(s, i + 1 + d)
         IN  IF g < Len(s) /\ At(s, g) \in {".", ","} /\ DigitRun(s, g + 1) >= 1
             THEN g + 1 + DigitRun(s, g + 1) ELSE g

\* LaTeXFixer._looks_like_currency
LooksLikeCurrency(s, i) ==
    LET after == CurrencyMatchEnd(s, i)
    IN  /\ after >= 0
        /\ ~(after < Len(s) /\ At(s, after) = "$")

\* lines 371-375: the first token of _tokens that s starts with at i, or <<>>
MatchToken(s, i) ==
    LET hits == {k \in 1..Len(Tokens) : StartsWith(s, Tokens[k], i)}
    IN  IF hits = {} THEN <<>> ELSE Tokens[SetMin(hits)]

\* IsOpener with the "top of the stack is the same token" test left out
IsOpener_NeverCloses(tok, stk) ==
    IF tok \in Openers /\ tok \notin Closers THEN TRUE
    ELSE IF tok \in Closers /\ tok \notin Openers THEN FALSE
    ELSE TRUE

\* lines 397-408: whether tok, met with this stack, acts as an opener
IsOpener(tok, stk) ==
    IF tok \in Openers /\ tok \notin Closers THEN TRUE
    ELSE IF tok \in Closers /\ tok \notin Openers THEN FALSE
    ELSE ~(stk # <<>> /\ stk[Len(stk)][1] = tok)

\* the Edit record that insert_closer appends (lines 339-343)
InsertEdit(tok_open, where_desc, pos) ==
    [kind |-> "insert", pos |-> pos, before |-> <<>>,
     after |-> Matching(tok_open),
     reason |-> <<"Inserted missing closer ", Matching(tok_open), " for ",
                  tok_open, where_desc>>]

\* the Edit record of lines 451-452
EndOfDocumentEdit(tok_open, n) ==
    [kind |-> "insert", pos |-> n, before |-> <<>>,
     after |-> Matching(tok_open),
     reason |-> <<"Inserted missing closer ", Matching(tok_open),
                  " at end of document">>]


\* DeleteEdit recording the index after the first character of the token
DeleteEdit_OffByOne(tok, pos) ==
    [kind |-> "delete", pos |-> pos + 1, before |-> tok, after |-> <<>>,
     reason |-> <<"Stray closer ", tok, " removed">>]

\* the Edit record of lines 425-426
DeleteEdit(tok, pos) ==
    [kind |-> "delete", pos |-> pos, before |-> tok, after |-> <<>>,
     reason |-> <<"Stray closer ", tok, " removed">>]

\* the Edit record of lines 440-441
ReplaceEdit(tok, open_tok, pos) ==
    [kind |-> "replace", pos |-> pos, before |-> tok,
     after |-> Matching(open_tok),
     reason |-> <<"Mismatched closer: ", tok, " -> ", Matching(open_tok),
                  " for opener ", open_tok>>]

RECURSIVE PoppedOpeners(_)
\* the opener tokens in the order "while stack: stack.pop()" yields them
PoppedOpeners(stk) ==
    IF stk = <<>> THEN <<>>
    ELSE <<stk[Len(stk)][1]>> \o PoppedOpeners(SubSeq(stk, 1, Len(stk) - 1))

\* [f(t) for t in seq]
MapSeq(seq, f(_)) == [k \in 1..Len(seq) |-> f(seq[k])]

(***************************************************************************)
(* latex.py : fix_align_environments                                       *)
(***************************************************************************)
NameAlign == <<"a", "l", "i", "g", "n">>
NameAlignStar == <<"a", "l", "i", "g", "n", "*">>
NameAligned == <<"a", "l", "i", "g", "n", "e", "d">>
AlignNames == {NameAlign, NameAlignStar, NameAligned}

\* group 1 of \\begin{(align\*?|aligned)} at index a, or <<>>
AlignEnvAt(s, a) ==
    LET names == {nm \in AlignNames :
                     StartsWith(s, BeginBrace \o nm \o <<"}">>, a)}
    IN  IF names = {} THEN <<>> ELSE CHOOSE nm \in names : TRUE

\* where the body (group 2) of a match at index a starts
AlignBodyStart(s, a) == a + Len(BeginBrace) + Len(AlignEnvAt(s, a)) + 1

\* the index of the \end{...} that closes a match at index a, or -1
AlignCloseAt(s, a) ==
    IF AlignEnvAt(s, a) = <<>> THEN -1
    ELSE Find(s, EndBrace \o AlignEnvAt(s, a) \o <<"}">>, AlignBodyStart(s, a))

RECURSIVE ReplaceAll(_, _, _)
\* s.replace(lit, rep)
ReplaceAll(s, lit, rep) ==
    LET a == Find(s, lit, 0)
    IN  IF a < 0 THEN s
        ELSE Slice(s, 0, a) \o rep
                \o ReplaceAll(Slice(s, a + Len(lit), Len(s)), lit, rep)

RECURSIVE SpaceRun(_, _)
SpaceRun(s, p) ==
    IF p < Len(s) /\ IsSpace(At(s, p)) THEN 1 + SpaceRun(s, p + 1) ELSE 0

RECURSIVE WordRun(_, _)
WordRun(s, p) ==
    IF p < Len(s) /\ IsWord(At(s, p)) THEN 1 + WordRun(s, p + 1) ELSE 0

\* the end of the match of \)\s*(\\\w+) at index a, or -1
BreakMatchEnd(s, a) ==
    LET q == a + 1 + SpaceRun(s, a + 1)
    IN  IF At(s, a) = ")" /\ q < Len(s) /\ At(s, q) = BS /\ WordRun(s, q + 1) >= 1
        THEN q + 1 + WordRun(s, q + 1) ELSE -1

RECURSIVE InsertRowBreaks(_)
\* re.sub(r"\)\s*(\\\w+)", r") \\\\\1", content)
InsertRowBreaks(s) ==
    LET starts == {a \in 0..(Len(s) - 1) : BreakMatchEnd(s, a) >= 0}
    IN  IF starts = {} THEN s
        ELSE LET a == SetMin(starts)
                 e == BreakMatchEnd(s, a)
                 q == a + 1 + SpaceRun(s, a + 1)
             IN  Slice(s, 0, a) \o <<")", " ", BS, BS>> \o Slice(s, q, e)
                    \o InsertRowBreaks(Slice(s, e, Len(s)))

RECURSIVE Strip(_)
\* content.strip()
Strip(s) ==
    IF s = <<>> THEN s
    ELSE IF IsSpace(s[1]) THEN Strip(Tail(s))
    ELSE IF IsSpace(s[Len(s)]) THEN Strip(SubSeq(s, 1, Len(s) - 1))
    ELSE s

\* CanonOpen keeping the name align
CanonOpen_KeepsAlign == <<"$", "$", "\n">> \o BeginBrace \o NameAlign \o <<"}", "\n">>

CanonOpen == <<"$", "$", "\n">> \o BeginBrace \o NameAligned \o <<"}", "\n">>
CanonClose == <<"\n">> \o EndBrace \o NameAligned \o <<"}", "\n", "$", "$">>

\* replacer (lines 480-491)
AlignReplacer(content) ==
    CanonOpen
        \o Strip(InsertRowBreaks(
              ReplaceAll(ReplaceAll(content, <<"$", "$", "$", "$">>, <<>>),
                         <<"$", "$">>, <<>>)))
        \o CanonClose

RECURSIVE FixAlignFrom(_, _)
\* pattern.sub(replacer, text), from index p on (lines 493-494)
FixAlignFrom(s, p) ==
    LET starts == {a \in p..(Len(s) - 1) : AlignCloseAt(s, a) >= 0}
    IN  IF starts = {} THEN Slice(s, p, Len(s))
        ELSE LET a == SetMin(starts)
                 c == AlignCloseAt(s, a)
                 e == c + Len(EndBrace) + Len(AlignEnvAt(s, a)) + 1
             IN  Slice(s, p, a)
                    \o AlignReplacer(Slice(s, AlignBodyStart(s, a), c))
                    \o FixAlignFrom(s, e)

\* fix_align_environments
FixAlignEnvironments(s) == FixAlignFrom(s, 0)

(***************************************************************************)
(* code_fences.py : strings, lines and the regular expressions of the      *)
(* module                                                                  *)
(***************************************************************************)
UpperSeq == <<"A", "B", "C", "D", "E", "F", "G", "H", "I", "J", "K", "L", "M",
              "N", "O", "P", "Q", "R", "S", "T", "U", "V", "W", "X", "Y", "Z">>
LowerSeq == <<"a", "b", "c", "d", "e", "f", "g", "h", "i", "j", "k", "l", "m",
              "n", "o", "p", "q", "r", "s", "t", "u", "v", "w", "x", "y", "z">>

\* str.lower()
ToLower(s) ==
    [k \in 1..Len(s) |->
        IF s[k] \in Upper
        THEN LowerSeq[CHOOSE j \in 1..Len(UpperSeq) : UpperSeq[j] = s[k]]
        ELSE s[k]]

RECURSIVE LStrip(_)
\* str.lstrip()
LStrip(s) == IF s # <<>> /\ IsSpace(s[1]) THEN LStrip(Tail(s)) ELSE s

RECURSIVE SplitLines(_)
\* text.splitlines(), for texts whose only line break is \n
SplitLines(s) ==
    IF s = <<>> THEN <<>>
    ELSE LET e == LineEnd(s, 0)
         IN  <<Slice(s, 0, e)>>
                \o (IF e >= Len(s) THEN <<>> ELSE SplitLines(Slice(s, e + 1, Len(s))))

RECURSIVE JoinLines(_)
\* "\n".join(lines)
JoinLines(ls) ==
    IF ls = <<>> THEN <<>>
    ELSE IF Len(ls) = 1 THEN ls[1]
    ELSE ls[1] \o <<"\n">> \o JoinLines(Tail(ls))

FenceChars == {BT, "~"}
\* [A-Za-z0-9.+#_\-]
TagChars == Digits \cup Lower \cup Upper \cup {".", "+", "#", "_", "-"}

RECURSIVE ClassRun(_, _, _)
\* the length of the longest run of characters of the class C from index p
ClassRun(s, C, p) ==
    IF p < Len(s) /\ At(s, p) \in C THEN 1 + ClassRun(s, C, p + 1) ELSE 0

\* where group 1 of OPEN_FENCE_RE and of CLOSE_FENCE_RE starts and ends
FenceRunStart(line) == SpaceRun(line, 0)
FenceRunEnd(line) == FenceRunStart(line) + ClassRun(line, FenceChars, FenceRunStart(line))
\* group 1: the run of fence characters
FenceSeries(line) == Slice(line, FenceRunStart(line), FenceRunEnd(line))
\* where group 2 of OPEN_FENCE_RE starts and ends
TagStart(line) == FenceRunEnd(line) + SpaceRun(line, FenceRunEnd(line))
TagEnd(line) == TagStart(line) + ClassRun(line, TagChars, TagStart(line))
\* group 2: the language tag
FenceTag(line) == Slice(line, TagStart(line), TagEnd(line))

\* OPEN_FENCE_RE.match(line)
IsOpenFence(line) ==
    /\ Len(FenceSeries(line)) >= 3
    /\ TagEnd(line) + SpaceRun(line, TagEnd(line)) = Len(line)

\* CLOSE_FENCE_RE.match(line)
IsCloseFence(line) ==
    /\ Len(FenceSeries(line)) >= 3
    /\ FenceRunEnd(line) + SpaceRun(line, FenceRunEnd(line)) = Len(line)

RECURSIVE MaxRun(_, _, _)
\* the longest run of the character ch in s from index p on, 0 if none
\* (BACKTICKS_RUN_RE(ch).finditer, line 347)
MaxRun(s, ch, p) ==
    IF p >= Len(s) THEN 0
    ELSE LET r == ClassRun(s, {ch}, p)
             rest == MaxRun(s, ch, p + (IF r = 0 THEN 1 ELSE r))
         IN  IF r > rest THEN r ELSE rest

SectionMarkers ==
    {<<"#", "#", "#", " ", "I", "m", "p", "r", "o", "v", "e", "m", "e", "n", "t", "s">>,
     <<"#", "#", "#", " ", "R", "e", "v", "i", "s", "e", "d", " ", "A", "n", "s", "w", "e", "r">>,
     <<"#", "#", "#", " ", "C", "o", "m", "m", "e", "n", "t", "s">>}

\* ATX_HEADER_RE.match(line): ^[ \t]{0,3}#{3,6}[ \t]+
IsAtxHeader(line) ==
    LET w == ClassRun(line, {" ", "\t"}, 0)
        h == ClassRun(line, {"#"}, w)
    IN  /\ w <= 3
        /\ h >= 3 /\ h <= 6
        /\ ClassRun(line, {" ", "\t"}, w + h) >= 1

\* _prev_nonblank_is_blank(lines, idx), idx 0-based
PrevNonblankIsBlank(ls, idx) == idx > 0 /\ Strip(ls[idx]) = <<>>

\* looks_like_section_boundary(lines, idx), idx 0-based
LooksLikeSectionBoundary(ls, idx) ==
    \/ \E m \in SectionMarkers : StartsWith(LStrip(ls[idx + 1]), m, 0)
    \/ IsAtxHeader(ls[idx + 1]) /\ PrevNonblankIsBlank(ls, idx)

(***************************************************************************)
(* Regular expressions of guess_lang, as syntax trees.  Ends(r, s, p) is   *)
(* the set of the indices at which a match of r that starts at p can end,  *)
(* which decides re.search and re.fullmatch.                               *)
(***************************************************************************)
RLit(cs) == [t |-> "lit", s |-> cs]
RIn(C) == [t |-> "in", c |-> C]
RNotIn(C) == [t |-> "notin", c |-> C]
RCat(rs) == [t |-> "cat", rs |-> rs]
RAlt(rs) == [t |-> "alt", rs |-> rs]
RStar(r) == [t |-> "star", r |-> r]
RPlus(r) == RCat(<<r, RStar(r)>>)
ROpt(r) == RAlt(<<r, RLit(<<>>)>>)
\* ^ with re.M
RBol == [t |-> "bol"]
\* \b
RWb == [t |-> "wb"]
\* \s, \w and the dot
RSpace == RIn({" ", "\n", "\t", "\r"})
RWord == RIn(Digits \cup Lower \cup Upper \cup {"_"})
RDot == RNotIn({"\n"})

IsWordAt(s, p) == p >= 0 /\ p < Len(s) /\ IsWord(At(s, p))

RECURSIVE Ends(_, _, _)
RECURSIVE CatEnds(_, _, _)
RECURSIVE StarEnds(_, _, _, _)
Ends(r, s, p) ==
    CASE r.t = "lit" -> IF StartsWith(s, r.s, p) THEN {p + Len(r.s)} ELSE {}
      [] r.t = "in" -> IF p < Len(s) /\ At(s, p) \in r.c THEN {p + 1} ELSE {}
      [] r.t = "notin" -> IF p < Len(s) /\ At(s, p) \notin r.c THEN {p + 1} ELSE {}
      [] r.t = "cat" -> CatEnds(r.rs, s, {p})
      [] r.t = "alt" -> UNION {Ends(r.rs[k], s, p) : k \in 1..Len(r.rs)}
      [] r.t = "star" -> StarEnds(r.r, s, {p}, {p})
      [] r.t = "bol" -> IF p = 0 \/ At(s, p - 1) = "\n" THEN {p} ELSE {}
      [] r.t = "wb" -> IF IsWordAt(s, p - 1) # IsWordAt(s, p) THEN {p} ELSE {}

CatEnds(rs, s, P) ==
    IF rs = <<>> THEN P
    ELSE CatEnds(Tail(rs), s, UNION {Ends(Head(rs), s, q) : q \in P})

StarEnds(r, s, done, frontier) ==
    IF frontier = {} THEN done
    ELSE LET new == UNION {Ends(r, s, q) : q \in frontier} \ done
         IN  StarEnds(r, s, done \cup new, new)

\* re.search(r, s) finds a match
Search(r, s) == \E p \in 0..Len(s) : Ends(r, s, p) # {}
\* re.fullmatch(r, s) finds a match
FullMatch(r, s) == Len(s) \in Ends(r, s, 0)

(***************************************************************************)
(* code_fences.py : guess_lang                                             *)
(***************************************************************************)
\* ^\s*def\s+\w+\s*\(
RePyDef ==
    RCat(<<RBol, RStar(RSpace), RLit(<<"d", "e", "f">>), RPlus(RSpace), RPlus(RWord),
           RStar(RSpace), RLit(<<"(">>)>>)
\* function\s+\w+\s*\(
ReJsFunction ==
    RCat(<<RLit(<<"f", "u", "n", "c", "t", "i", "o", "n">>),
           RPlus(RSpace), RPlus(RWord), RStar(RSpace), RLit(<<"(">>)>>)
\* \bimport\s+.*\s+from\s+
ReJsImport ==
    RCat(<<RWb, RLit(<<"i", "m", "p", "o", "r", "t">>), RPlus(RSpace), RStar(RDot),
           RPlus(RSpace), RLit(<<"f", "r", "o", "m">>), RPlus(RSpace)>>)
\* ^\s*\$?\s*(cd|ls|echo|export|pip|apt|yum|curl|wget|git)\b
ReBash ==
    RCat(<<RBol, RStar(RSpace), ROpt(RLit(<<"$">>)), RStar(RSpace),
           RAlt(<<RLit(<<"c", "d">>),
                  RLit(<<"l", "s">>),
                  RLit(<<"e", "c", "h", "o">>),
                  RLit(<<"e", "x", "p", "o", "r", "t">>),
                  RLit(<<"p", "i", "p">>),
                  RLit(<<"a", "p", "t">>),
                  RLit(<<"y", "u", "m">>),
                  RLit(<<"c", "u", "r", "l">>),
                  RLit(<<"w", "g", "e", "t">>),
                  RLit(<<"g", "i", "t">>)>>),
           RWb>>)
\* \bselect\b.*\bfrom\b
ReSqlSelect ==
    RCat(<<RWb, RLit(<<"s", "e", "l", "e", "c", "t">>), RWb, RStar(RDot), RWb,
           RLit(<<"f", "r", "o", "m">>), RWb>>)
\* \bcreate\s+table\b
ReSqlCreate ==
    RCat(<<RWb, RLit(<<"c", "r", "e", "a", "t", "e">>), RPlus(RSpace),
           RLit(<<"t", "a", "b", "l", "e">>), RWb>>)
\* ^\s*<html\b
ReHtml == RCat(<<RBol, RStar(RSpace), RLit(<<"<", "h", "t", "m", "l">>), RWb>>)
\* \s*\{[\s\S]*\}\s*
ReJson ==
    RCat(<<RStar(RSpace), RLit(<<"{">>), RStar(RNotIn({})), RLit(<<"}">>), RStar(RSpace)>>)
\* ^\s*[\w\-]+\s*:\s*.+
ReYaml ==
    RCat(<<RBol, RStar(RSpace), RPlus(RIn(Digits \cup Lower \cup Upper \cup {"_", "-"})),
           RStar(RSpace), RLit(<<":">>), RStar(RSpace), RPlus(RDot)>>)
\* \bint\s+main\s*\(
ReCMain ==
    RCat(<<RWb, RLit(<<"i", "n", "t">>), RPlus(RSpace), RLit(<<"m", "a", "i", "n">>),
           RStar(RSpace), RLit(<<"(">>)>>)
\* \bpublic\s+class\b
ReJavaClass ==
    RCat(<<RWb, RLit(<<"p", "u", "b", "l", "i", "c">>), RPlus(RSpace),
           RLit(<<"c", "l", "a", "s", "s">>), RWb>>)
\* \bSystem\.out\.println\(
ReJavaPrintln ==
    RCat(<<RWb, RLit(<<"S", "y", "s", "t", "e", "m", ".", "o", "u", "t", ".", "p", "r", "i", "n", "t", "l", "n", "(">>)>>)

LangPython == <<"p", "y", "t", "h", "o", "n">>
LangJavascript == <<"j", "a", "v", "a", "s", "c", "r", "i", "p", "t">>
LangBash == <<"b", "a", "s", "h">>
LangSql == <<"s", "q", "l">>
LangHtml == <<"h", "t", "m", "l">>
LangJson == <<"j", "s", "o", "n">>
LangYaml == <<"y", "a", "m", "l">>
LangC == <<"c">>
LangJava == <<"j", "a", "v", "a">>
LangRust == <<"r", "u", "s", "t">>

\* guess_lang(code); <<>> stands for None
GuessLang(code) ==
    LET s == Strip(code)
        low == ToLower(s)
    IN  IF \/ Search(RePyDef, s)
           \/ Contains(low, <<"i", "m", "p", "o", "r", "t", " ">>)
           \/ Contains(s, <<"p", "r", "i", "n", "t", "(">>)
        THEN LangPython
        ELSE IF \/ Contains(s, <<"c", "o", "n", "s", "o", "l", "e", ".", "l", "o", "g", "(">>)
                \/ Search(ReJsFunction, s)
                \/ Contains(s, <<"=", ">", " ">>)
                \/ Search(ReJsImport, low)
        THEN LangJavascript
        ELSE IF Search(ReBash, low) THEN LangBash
        ELSE IF Search(ReSqlSelect, low) \/ Search(ReSqlCreate, low) THEN LangSql
        ELSE IF \/ StartsWith(low, <<"<", "!", "d", "o", "c", "t", "y", "p", "e", " ", "h", "t", "m", "l">>, 0)
                \/ Search(ReHtml, low)
                \/ StartsWith(low, <<"<", "?", "x", "m", "l">>, 0)
        THEN LangHtml
        ELSE IF FullMatch(ReJson, s) /\ Contains(s, <<":">>) THEN LangJson
        ELSE IF /\ Search(ReYaml, s)
                /\ ~(Contains(s, <<";">>) \/ Contains(s, <<"{">>))
        THEN LangYaml
        ELSE IF Contains(s, <<"#", "i", "n", "c", "l", "u", "d", "e">>) \/ Search(ReCMain, s) THEN LangC
        ELSE IF Search(ReJavaClass, s) \/ Search(ReJavaPrintln, s) THEN LangJava
        ELSE IF \/ Contains(s, <<"f", "n", " ", "m", "a", "i", "n", "(", ")">>)
                \/ Contains(s, <<"l", "e", "t", " ", "m", "u", "t", " ">>)
        THEN LangRust
        ELSE <<>>

(***************************************************************************)
(* Input texts: every concatenation of at most MaxPieces pieces of one of  *)
(* the vocabularies.                                                       *)
(***************************************************************************)
Tilde3 == <<"~", "~", "~">>
BeginAlign == BeginBrace \o NameAlign \o <<"}">>
EndAlign == EndBrace \o NameAlign \o <<"}">>
BeginVerbatim == BeginBrace \o NameVerbatim \o <<"}">>
EndVerbatim == EndBrace \o NameVerbatim \o <<"}">>

AlignBlock == BeginAlign \o <<"x">> \o EndAlign
\* a numeral of more than three digits
Digits4 == <<"1", "2", "3", "4">>

\* delimiters, escapes, currency, newlines
DelimPieces ==
    {<<"$">>, <<BS>>, TokLParen, TokRParen, TokLBrack, TokRBrack, <<"\n">>,
     <<"x">>, <<"5">>, Digits4}
\* code fences, inline code, comments, align environments
SpanPieces ==
    {Fence3, Tilde3, <<BT>>, <<"%">>, <<"$">>, <<"\n">>, <<"x">>,
     BeginAlign, EndAlign, AlignBlock}
\* verbatim environments and \verb
VerbPieces ==
    {BeginVerbatim, EndVerbatim, VerbLit \o <<"|">>, <<"|">>, <<"$">>,
     <<"\n">>, <<"x">>}

BeginAlignStar == BeginBrace \o NameAlignStar \o <<"}">>
EndAlignStar == EndBrace \o NameAlignStar \o <<"}">>
BeginAligned == BeginBrace \o NameAligned \o <<"}">>
EndAligned == EndBrace \o NameAligned \o <<"}">>
\* the other two align environments, with math opened inside them
AlignPieces ==
    {BeginAlignStar, EndAlignStar, BeginAligned, EndAligned, <<"x">>, TokLParen}

RECURSIVE TextsOver(_, _)
TextsOver(P, n) ==
    IF n = 0 THEN {<<>>}
    ELSE LET T == TextsOver(P, n - 1)
         IN  T \cup {t \o q : t \in T, q \in P}

Texts ==
    TextsOver(DelimPieces, MaxPieces) \cup TextsOver(SpanPieces, MaxPieces)
        \cup TextsOver(VerbPieces, MaxPieces)
        \cup TextsOver(AlignPieces, MaxPieces)

(***************************************************************************)
(* State.  The module holds two programs over one list of variables:       *)
(* Spec runs fix_latex_delimiters, SpecFence runs ensure_fenced_code.      *)
(*   text : the argument of both                                           *)
(*   close_on_newline : the argument of fix_latex_delimiters               *)
(*   protected, i, out, edits, stack : the locals of _scan_and_fix         *)
(*   fixed : the text held by fix_latex_delimiters once the scan returned, *)
(*           the text returned by fix_code_fences                          *)
(*   default_lang, keep_fence_char : the arguments of ensure_fenced_code   *)
(*   lines, i, in_block, fence_char, fence_len, open_line, depth :         *)
(*           the locals of validate_code_fences, v_issues its issue list   *)
(*   lines, i, out, changes, orig_series, fence_char, fence_len, lang,     *)
(*   code_buf, closed : the locals of fix_code_fences                      *)
(*   issues, issues2 : the issue lists ensure_fenced_code was returned     *)
(*   ret : the change list ensure_fenced_code returns                      *)
(*   pc : "scan" in the loop of _scan_and_fix, "scanned" when              *)
(*        LaTeXFixer.fix has returned, "done" when fix_latex_delimiters    *)
(*        has returned; "validate1", "validate2" in the two sweeps of the  *)
(*        first validation, "fix" in the outer and "collect" in the inner  *)
(*        loop of fix_code_fences, "rebuild" when the inner loop was left  *)
(*        by a break, "revalidate1", "revalidate2" in the sweeps of the    *)
(*        second validation, "ensured" when ensure_fenced_code has         *)
(*        returned                                                         *)
(***************************************************************************)
VARIABLES text, close_on_newline, protected, i, out, edits, stack, fixed, pc,
          default_lang, keep_fence_char, lines, in_block, fence_char,
          fence_len, open_line, depth, v_issues, issues, issues2, changes,
          orig_series, lang, code_buf, closed, ret

fenceVars ==
    <<default_lang, keep_fence_char, lines, in_block, fence_char, fence_len,
      open_line, depth, v_issues, issues, issues2, changes, orig_series, lang,
      code_buf, closed, ret>>

latexVars == <<close_on_newline, protected, edits, stack>>

vars == <<text, i, out, fixed, pc, latexVars, fenceVars>>

\* None
NoneVal == "None"

\* the variables of ensure_fenced_code while fix_latex_delimiters runs
FenceIdle ==
    /\ default_lang = <<>>
    /\ keep_fence_char = TRUE
    /\ lines = <<>>
    /\ in_block = FALSE
    /\ fence_char = NoneVal
    /\ fence_len = 0
    /\ open_line = 0
    /\ depth = 0
    /\ v_issues = <<>>
    /\ issues = <<>>
    /\ issues2 = <<>>
    /\ changes = <<>>
    /\ orig_series = <<>>
    /\ lang = <<>>
    /\ code_buf = <<>>
    /\ closed = FALSE
    /\ ret = <<>>

\* the variables of fix_latex_delimiters while ensure_fenced_code runs
LatexIdle ==
    /\ close_on_newline = TRUE
    /\ protected = <<>>
    /\ edits = <<>>
    /\ stack = <<>>

\* fix_latex_delimiters called: the fixer is built, fix() has computed the
\* protected spans (line 147) and _scan_and_fix has set up its locals
\* (lines 332-337)
Init ==
    /\ text \in Texts
    /\ close_on_newline \in BOOLEAN
    /\ protected = ProtectedSpans(text)
    /\ i = 0
    /\ out = <<>>
    /\ edits = <<>>
    /\ stack = <<>>
    /\ fixed = <<>>
    /\ pc = "scan"
    /\ FenceIdle

Scanning == pc = "scan" /\ i < Len(text)
\* ch = s[i] is reached (line 357)
Unprotected == Scanning /\ ~InProtected(i, protected)
\* the token search is reached (line 371)
PastNewline ==
    /\ Unprotected
    /\ ~(At(text, i) = "\n" /\ close_on_newline /\ stack # <<>>)
tok == MatchToken(text, i)
\* the escape check is reached and passed (line 390 is reached)
Unescaped ==
    /\ PastNewline
    /\ tok # <<>>
    /\ CountTrailingBackslashes(Slice(text, 0, i)) % 2 # 1
\* the classification is reached (line 396)
Classified ==
    /\ Unescaped
    /\ ~(tok = TokD /\ stack = <<>> /\ LooksLikeCurrency(text, i))

\* SkipProtected closing the open math without a record
SkipProtected_DropsStack ==
    /\ Scanning
    /\ InProtected(i, protected)
    /\ LET k == SetMin({j \in 1..Len(protected) :
                          protected[j][1] <= i /\ i < protected[j][2]})
           en == protected[k][2]
       IN  /\ out' = Append(out, Slice(text, i, en))
           /\ i' = en
    /\ stack' = <<>>
    /\ UNCHANGED <<text, close_on_newline, protected, edits, fixed, pc>>
    /\ UNCHANGED fenceVars

\* lines 347-355
SkipProtected ==
    /\ Scanning
    /\ InProtected(i, protected)
    /\ LET k == SetMin({j \in 1..Len(protected) :
                          protected[j][1] <= i /\ i < protected[j][2]})
           en == protected[k][2]
       IN  /\ out' = Append(out, Slice(text, i, en))
           /\ i' = en
    /\ UNCHANGED <<text, close_on_newline, protected, edits, stack, fixed, pc>>
    /\ UNCHANGED fenceVars

\* NewlineClose with the close_on_newline test left out
NewlineClose_IgnoresFlag ==
    /\ Unprotected
    /\ At(text, i) = "\n" /\ stack # <<>>
    /\ LET InsertAtEol(t) == InsertEdit(t, " at end of line", i)
       IN  /\ edits' = edits \o MapSeq(PoppedOpeners(stack), InsertAtEol)
           /\ out' = out \o MapSeq(PoppedOpeners(stack), Matching) \o <<<<"\n">>>>
    /\ stack' = <<>>
    /\ i' = i + 1
    /\ UNCHANGED <<text, close_on_newline, protected, fixed, pc>>
    /\ UNCHANGED fenceVars

\* lines 360-368
NewlineClose ==
    /\ Unprotected
    /\ At(text, i) = "\n" /\ close_on_newline /\ stack # <<>>
    /\ LET InsertAtEol(t) == InsertEdit(t, " at end of line", i)
       IN  /\ edits' = edits \o MapSeq(PoppedOpeners(stack), InsertAtEol)
           /\ out' = out \o MapSeq(PoppedOpeners(stack), Matching) \o <<<<"\n">>>>
    /\ stack' = <<>>
    /\ i' = i + 1
    /\ UNCHANGED <<text, close_on_newline, protected, fixed, pc>>
    /\ UNCHANGED fenceVars

\* CopyChar without the advance of the cursor
CopyChar_NoAdvance ==
    /\ PastNewline
    /\ tok = <<>>
    /\ out' = Append(out, <<At(text, i)>>)
    /\ UNCHANGED <<text, i, close_on_newline, protected, edits, stack, fixed, pc>>
    /\ UNCHANGED fenceVars

\* lines 377-380
CopyChar ==
    /\ PastNewline
    /\ tok = <<>>
    /\ out' = Append(out, <<At(text, i)>>)
    /\ i' = i + 1
    /\ UNCHANGED <<text, close_on_newline, protected, edits, stack, fixed, pc>>
    /\ UNCHANGED fenceVars

\* EscapedToken taking the escaped token for an opener
EscapedToken_Opens ==
    /\ PastNewline
    /\ tok # <<>>
    /\ CountTrailingBackslashes(Slice(text, 0, i)) % 2 = 1
    /\ stack' = Append(stack, <<tok, Len(out), i>>)
    /\ out' = Append(out, tok)
    /\ i' = i + Len(tok)
    /\ UNCHANGED <<text, close_on_newline, protected, edits, fixed, pc>>
    /\ UNCHANGED fenceVars

\* lines 383-388
EscapedToken ==
    /\ PastNewline
    /\ tok # <<>>
    /\ CountTrailingBackslashes(Slice(text, 0, i)) % 2 = 1
    /\ out' = Append(out, tok)
    /\ i' = i + Len(tok)
    /\ UNCHANGED <<text, close_on_newline, protected, edits, stack, fixed, pc>>
    /\ UNCHANGED fenceVars

\* lines 391-394
Currency ==
    /\ Unescaped
    /\ tok = TokD /\ stack = <<>> /\ LooksLikeCurrency(text, i)
    /\ out' = Append(out, <<"$">>)
    /\ i' = i + 1
    /\ UNCHANGED <<text, close_on_newline, protected, edits, stack, fixed, pc>>
    /\ UNCHANGED fenceVars

\* OpenMath pushing the new opener on top of the open entry
OpenMath_Nested ==
    /\ Classified
    /\ IsOpener(tok, stack)
    /\ edits' = edits
    /\ stack' = Append(stack, <<tok, Len(out), i>>)
    /\ out' = Append(out, tok)
    /\ i' = i + Len(tok)
    /\ UNCHANGED <<text, close_on_newline, protected, fixed, pc>>
    /\ UNCHANGED fenceVars

\* lines 410-420
OpenMath ==
    /\ Classified
    /\ IsOpener(tok, stack)
    /\ IF stack # <<>>
       THEN LET open_tok == stack[Len(stack)][1]
                popped == SubSeq(stack, 1, Len(stack) - 1)
            IN  /\ edits' = Append(edits,
                       InsertEdit(open_tok, " before opening a new math block", i))
                /\ stack' = Append(popped, <<tok, Len(out) + 1, i>>)
                /\ out' = out \o <<Matching(open_tok), tok>>
       ELSE /\ edits' = edits
            /\ stack' = Append(stack, <<tok, Len(out), i>>)
            /\ out' = Append(out, tok)
    /\ i' = i + Len(tok)
    /\ UNCHANGED <<text, close_on_newline, protected, fixed, pc>>
    /\ UNCHANGED fenceVars

\* StrayCloser copying the stray token to the output
StrayCloser_Kept ==
    /\ Classified
    /\ ~IsOpener(tok, stack)
    /\ stack = <<>>
    /\ edits' = Append(edits, DeleteEdit(tok, i))
    /\ out' = Append(out, tok)
    /\ i' = i + Len(tok)
    /\ UNCHANGED <<text, close_on_newline, protected, stack, fixed, pc>>
    /\ UNCHANGED fenceVars

\* lines 423-428
StrayCloser ==
    /\ Classified
    /\ ~IsOpener(tok, stack)
    /\ stack = <<>>
    /\ edits' = Append(edits, DeleteEdit(tok, i))
    /\ i' = i + Len(tok)
    /\ UNCHANGED <<text, close_on_newline, protected, out, stack, fixed, pc>>
    /\ UNCHANGED fenceVars

\* lines 430-437
MatchedCloser ==
    /\ Classified
    /\ ~IsOpener(tok, stack)
    /\ stack # <<>>
    /\ tok = Matching(stack[Len(stack)][1])
    /\ stack' = SubSeq(stack, 1, Len(stack) - 1)
    /\ out' = Append(out, tok)
    /\ i' = i + Len(tok)
    /\ UNCHANGED <<text, close_on_newline, protected, edits, fixed, pc>>
    /\ UNCHANGED fenceVars

\* MismatchedCloser emitting the token it found
MismatchedCloser_Kept ==
    /\ Classified
    /\ ~IsOpener(tok, stack)
    /\ stack # <<>>
    /\ tok # Matching(stack[Len(stack)][1])
    /\ edits' = Append(edits, ReplaceEdit(tok, stack[Len(stack)][1], i))
    /\ stack' = SubSeq(stack, 1, Len(stack) - 1)
    /\ out' = Append(out, tok)
    /\ i' = i + Len(tok)
    /\ UNCHANGED <<text, close_on_newline, protected, fixed, pc>>
    /\ UNCHANGED fenceVars

\* lines 438-445
MismatchedCloser ==
    /\ Classified
    /\ ~IsOpener(tok, stack)
    /\ stack # <<>>
    /\ tok # Matching(stack[Len(stack)][1])
    /\ edits' = Append(edits, ReplaceEdit(tok, stack[Len(stack)][1], i))
    /\ stack' = SubSeq(stack, 1, Len(stack) - 1)
    /\ out' = Append(out, Matching(stack[Len(stack)][1]))
    /\ i' = i + Len(tok)
    /\ UNCHANGED <<text, close_on_newline, protected, fixed, pc>>
    /\ UNCHANGED fenceVars

\* EndOfText returning the output without closing the open math
EndOfText_Unclosed ==
    /\ pc = "scan"
    /\ i >= Len(text)
    /\ fixed' = Flat(out)
    /\ pc' = "scanned"
    /\ UNCHANGED <<text, close_on_newline, protected, i, out, edits, stack>>
    /\ UNCHANGED fenceVars

\* lines 447-455 and line 529: the loop is left, the open math is closed and
\* LaTeXFixer.fix returns the joined output
EndOfText ==
    /\ pc = "scan"
    /\ i >= Len(text)
    /\ LET AtEnd(t) == EndOfDocumentEdit(t, Len(text))
           closers == MapSeq(PoppedOpeners(stack), Matching)
       IN  /\ edits' = edits \o MapSeq(PoppedOpeners(stack), AtEnd)
           /\ out' = out \o closers
           /\ fixed' = Flat(out \o closers)
    /\ stack' = <<>>
    /\ pc' = "scanned"
    /\ UNCHANGED <<text, close_on_newline, protected, i>>
    /\ UNCHANGED fenceVars

\* lines 530-531
FixAlign ==
    /\ pc = "scanned"
    /\ fixed' = FixAlignEnvironments(fixed)
    /\ pc' = "done"
    /\ UNCHANGED <<text, close_on_newline, protected, i, out, edits, stack>>
    /\ UNCHANGED fenceVars

Next ==
    \/ SkipProtected
    \/ NewlineClose
    \/ CopyChar
    \/ EscapedToken
    \/ Currency
    \/ OpenMath
    \/ StrayCloser
    \/ MatchedCloser
    \/ MismatchedCloser
    \/ EndOfText
    \/ FixAlign

Spec == Init /\ [][Next]_vars

(***************************************************************************)
(* Vocabulary of the claims about the math-delimiter fixer.                *)
(***************************************************************************)
RECURSIVE DelimsFrom(_, _, _)
\* the delimiter tokens of s outside the protected spans and not escaped, each
\* with its index, from index p on, tokens taken longest first
DelimsFrom(s, spans, p) ==
    IF p >= Len(s) THEN <<>>
    ELSE IF InProtected(p, spans)
         THEN DelimsFrom(s, spans,
                  SetMin({e \in p + 1..Len(s) : ~InProtected(e, spans)}))
    ELSE IF MatchToken(s, p) = <<>> THEN DelimsFrom(s, spans, p + 1)
    ELSE IF CountTrailingBackslashes(Slice(s, 0, p)) % 2 = 1
         THEN DelimsFrom(s, spans, p + Len(MatchToken(s, p)))
    ELSE <<<<MatchToken(s, p), p>>>>
            \o DelimsFrom(s, spans, p + Len(MatchToken(s, p)))

Delims == DelimsFrom(text, ProtectedSpans(text), 0)

\* every opener is followed by its matching closer; there is no stray closer
Balanced(ds) ==
    /\ Len(ds) % 2 = 0
    /\ \A k \in 1..Len(ds) :
          k % 2 = 1 => /\ ds[k][1] \in {TokLBrack, TokLParen, TokDD, TokD}
                       /\ ds[k + 1][1] = Matching(ds[k][1])

\* a newline outside the protected spans lies between an opener and its closer
NewlineInMath(ds) ==
    \E k \in 1..Len(ds) :
        /\ k % 2 = 1
        /\ \E j \in ds[k][2]..ds[k + 1][2] :
              At(text, j) = "\n" /\ ~InProtected(j, ProtectedSpans(text))

\* an opening $ starts a currency amount
CurrencyOpener(ds) ==
    \E k \in 1..Len(ds) :
        k % 2 = 1 /\ ds[k][1] = TokD /\ LooksLikeCurrency(text, ds[k][2])

\* s holds an align, align* or aligned environment closed by the same name
HasAlignBlock(s) == \E a \in 0..(Len(s) - 1) : AlignCloseAt(s, a) >= 0

IsSubstring(sub, s) == \E a \in 0..(Len(s) - Len(sub)) : StartsWith(s, sub, a)

\* edit e refers to a position inside the span [st, en)
EditInside(e, st, en) ==
    IF e.kind = "insert" THEN st < e.pos /\ e.pos < en
    ELSE e.pos < en /\ e.pos + Len(e.before) > st

Returned == pc = "done"

C4_CodeBlockUntouched ==
    Returned =>
        \A m \in CodeFenceMatches(text, 0) :
            /\ IsSubstring(Slice(text, m[1], m[2]), fixed)
            /\ \A k \in 1..Len(edits) : ~EditInside(edits[k], m[1], m[2])

RECURSIVE TildeBlocks(_, _)
\* the blocks fenced by three tildes, delimited as _code_fence delimits the
\* blocks fenced by three backticks
TildeBlocks(s, p) ==
    LET a == Find(s, Tilde3, p)
        b == IF a < 0 THEN -1 ELSE Find(s, Tilde3, a + 3)
    IN  IF a < 0 \/ b < 0 THEN {}
        ELSE {<<a, b + 3>>} \cup TildeBlocks(s, b + 3)

(***************************************************************************)
(* C5: a code block fenced with tildes is covered by a protected span, and *)
(* the fixer records no edit inside it.                                    *)
(***************************************************************************)
C5_TildeBlockProtected ==
    Returned =>
        \A m \in TildeBlocks(text, 0) :
            /\ \E k \in 1..Len(protected) :
                  protected[k][1] <= m[1] /\ m[2] <= protected[k][2]
            /\ \A k \in 1..Len(edits) : ~EditInside(edits[k], m[1], m[2])

(***************************************************************************)
(* C6: the stack of open math never holds more than one entry; a step that *)
(* replaces the open entry by a new one has emitted the matching closer of *)
(* the old entry and then the new opener, and has recorded one insert edit *)
(* whose reason says "before opening a new math block".                    *)
(***************************************************************************)
C6_NoNesting ==
    /\ [](Len(stack) <= 1)
    /\ [][(stack # <<>> /\ stack' # <<>> /\ stack' # stack) =>
            LET old == stack[Len(stack)][1]
                new == stack'[Len(stack')][1]
            IN  /\ Len(stack') = 1
                /\ new \in {TokLBrack, TokLParen, TokDD, TokD}
                /\ StartsWith(text, new, i)
                /\ Flat(out') = Flat(out) \o Matching(old) \o new
                /\ Len(edits') = Len(edits) + 1
                /\ edits'[Len(edits')].kind = "insert"
                /\ edits'[Len(edits')].after = Matching(old)
                /\ edits'[Len(edits')].reason[5]
                      = " before opening a new math block"]_vars

C6_Witness ==
    /\ Len(stack) = 1
    /\ edits # <<>>
    /\ edits[Len(edits)].reason[Len(edits[Len(edits)].reason)]
          = " before opening a new math block"

(***************************************************************************)
(* C7: when the scan reaches the end of the text with a math entry open,   *)
(* the matching closer of the entry is appended at the end of the output   *)
(* and an insert edit at position len(text), whose reason says "missing    *)
(* closer ... at end of document", is recorded; the stack is empty when    *)
(* fix returns (either close_on_newline setting).                          *)
(***************************************************************************)
C7_ClosedAtEndOfDocument ==
    /\ [](pc \in {"scanned", "done"} => stack = <<>>)
    /\ [][(pc = "scan" /\ pc' # "scan" /\ stack # <<>>) =>
            LET open_tok == stack[Len(stack)][1]
                last == edits'[Len(edits')]
            IN  /\ i = Len(text)
                /\ fixed' = Flat(out) \o Matching(open_tok)
                /\ Len(edits') = Len(edits) + 1
                /\ last.kind = "insert"
                /\ last.pos = Len(text)
                /\ last.before = <<>>
                /\ last.after = Matching(open_tok)
                /\ last.reason[1] = "Inserted missing closer "
                /\ last.reason[Len(last.reason)] = " at end of document"]_vars

C7_Witness ==
    /\ pc = "scanned"
    /\ edits # <<>>
    /\ edits[Len(edits)].pos = Len(text)
    /\ edits[Len(edits)].reason[Len(edits[Len(edits)].reason)]
          = " at end of document"
    /\ ~close_on_newline

\* the cursor of the scan is on a newline outside the protected spans
AtNewline ==
    /\ pc = "scan" /\ i < Len(text)
    /\ At(text, i) = "\n"
    /\ ~InProtected(i, ProtectedSpans(text))

\* edit e is an insert whose reason ends with where
IsInsertOf(e, closer, where) ==
    /\ e.kind = "insert" /\ e.before = <<>> /\ e.after = closer
    /\ e.reason[1] = "Inserted missing closer "
    /\ e.reason[Len(e.reason)] = where

(***************************************************************************)
(* C8: with close_on_newline = true, at a newline outside a protected span *)
(* with math open, the matching closer of every open entry is emitted      *)
(* before the newline (last opened first), one insert edit "at end of      *)
(* line" is recorded per entry, and the stack is empty once the newline is *)
(* emitted; with close_on_newline = false a newline never changes the      *)
(* stack and no such edit is ever produced.                                *)
(***************************************************************************)
C8_NewlineCloses ==
    /\ [][(AtNewline /\ close_on_newline /\ stack # <<>>) =>
            /\ i' = i + 1
            /\ stack' = <<>>
            /\ Flat(out') = Flat(out) \o Flat(MapSeq(PoppedOpeners(stack), Matching))
                                \o <<"\n">>
            /\ Len(edits') = Len(edits) + Len(stack)
            /\ \A k \in 1..Len(stack) :
                  /\ IsInsertOf(edits'[Len(edits) + k],
                         Matching(PoppedOpeners(stack)[k]), " at end of line")
                  /\ edits'[Len(edits) + k].pos = i
            /\ SubSeq(edits', 1, Len(edits)) = edits]_vars
    /\ [][(AtNewline /\ ~close_on_newline) =>
            (stack' = stack /\ edits' = edits /\ Flat(out') = Flat(out) \o <<"\n">>)]_vars
    /\ [](~close_on_newline =>
            \A k \in 1..Len(edits) :
                edits[k].reason[Len(edits[k].reason)] # " at end of line")

C8_Witness ==
    /\ close_on_newline
    /\ pc = "scan" /\ i > 0 /\ At(text, i - 1) = "\n"
    /\ stack = <<>>
    /\ edits # <<>>
    /\ IsInsertOf(edits[Len(edits)], TokRParen, " at end of line")
    /\ edits[Len(edits)].pos = i - 1

\* the cursor of the scan is on an unescaped token t outside the protected spans
AtToken(t) ==
    /\ pc = "scan"
    /\ StartsWith(text, t, i)
    /\ ~InProtected(i, ProtectedSpans(text))
    /\ CountTrailingBackslashes(Slice(text, 0, i)) % 2 = 0

(***************************************************************************)
(* C9: when an unescaped closer token is met while the entry on top of the *)
(* stack requires a different closer, the output receives the required     *)
(* closer in its place, exactly one replace edit is recorded (position the *)
(* index of the token, before the token, after the required closer, reason *)
(* "Mismatched closer ...") and the entry is popped.                       *)
(***************************************************************************)
C9_MismatchedCloserReplaced ==
    [][\A t \in {TokRParen, TokRBrack} :
        (AtToken(t) /\ stack # <<>> /\ Matching(stack[Len(stack)][1]) # t) =>
            LET want == Matching(stack[Len(stack)][1])
            IN  /\ i' = i + Len(t)
                /\ Flat(out') = Flat(out) \o want
                /\ stack' = SubSeq(stack, 1, Len(stack) - 1)
                /\ Len(edits') = Len(edits) + 1
                /\ SubSeq(edits', 1, Len(edits)) = edits
                /\ edits'[Len(edits')].kind = "replace"
                /\ edits'[Len(edits')].pos = i
                /\ edits'[Len(edits')].before = t
                /\ edits'[Len(edits')].after = want
                /\ edits'[Len(edits')].reason[1] = "Mismatched closer: "]_vars

C9_Witness ==
    /\ edits # <<>>
    /\ edits[Len(edits)].kind = "replace"
    /\ edits[Len(edits)].before = TokRBrack
    /\ edits[Len(edits)].after = TokRParen
    /\ stack = <<>>
    /\ pc = "scan"

(***************************************************************************)
(* C10: when an unescaped closer token is met outside the protected spans  *)
(* while the stack is empty, the token is omitted from the output, exactly *)
(* one delete edit is recorded (position the index of the token, before    *)
(* the token, after empty) and the stack stays empty.                      *)
(***************************************************************************)
C10_StrayCloserDeleted ==
    [][\A t \in {TokRParen, TokRBrack} :
        (AtToken(t) /\ stack = <<>>) =>
            /\ i' = i + Len(t)
            /\ out' = out
            /\ stack' = <<>>
            /\ Len(edits') = Len(edits) + 1
            /\ SubSeq(edits', 1, Len(edits)) = edits
            /\ edits'[Len(edits')].kind = "delete"
            /\ edits'[Len(edits')].pos = i
            /\ edits'[Len(edits')].before = t
            /\ edits'[Len(edits')].after = <<>>]_vars

C10_Witness ==
    /\ edits # <<>>
    /\ edits[Len(edits)].kind = "delete"
    /\ edits[Len(edits)].before = TokRParen
    /\ edits[Len(edits)].pos = i - 2
    /\ stack = <<>>
    /\ out # <<>>
    /\ pc = "scan"

(***************************************************************************)
(* code_fences.py : ensure_fenced_code.  Input documents: at most MaxLines *)
(* lines of LinePool, joined by newlines.                                  *)
(***************************************************************************)
MaxLines == 3

Fence4 == <<BT, BT, BT, BT>>
\* a run of mixed fence characters, matched by [BACKTICK~]{3,} like a uniform one
MixedRun == <<BT, "~", "~">>
TaggedFence == Fence3 \o <<"P", "y">>
MarkerLine == <<"#", "#", "#", " ", "C", "o", "m", "m", "e", "n", "t", "s">>
HeadingLine == <<"#", "#", "#", " ", "h">>
PrintLine == <<"p", "r", "i", "n", "t", "(">>

LinePool ==
    {Fence3, Fence4, Tilde3, MixedRun, TaggedFence, <<"x">>, <<>>, MarkerLine,
     HeadingLine, PrintLine}

RECURSIVE LineSeqs(_)
LineSeqs(n) ==
    IF n = 0 THEN {<<>>}
    ELSE LET T == LineSeqs(n - 1)
         IN  T \cup {Append(t, l) : t \in T, l \in LinePool}

Documents == {JoinLines(ls) : ls \in LineSeqs(MaxLines)}

\* None, and a default with an upper-case letter
DefaultLangs == {<<>>, <<"T", "e", "x", "t">>}

\* ch * n
Repeat(ch, n) == [k \in 1..n |-> ch]

UnclosedIssue(n) == <<"Unclosed code fence started on line ", n>>
StrayIssue(n) == <<"Closing fence without opening on line ", n>>
StillInvalid == <<"Still invalid after fix">>

\* the locals of validate_code_fences as set up by lines 224-229, with the
\* first loop about to read line 1
ValidateEntry(t) ==
    /\ lines' = SplitLines(t)
    /\ v_issues' = <<>>
    /\ in_block' = FALSE
    /\ fence_char' = NoneVal
    /\ fence_len' = 0
    /\ open_line' = 0
    /\ i' = 1

\* ensure_fenced_code called: validate_code_fences(text) has set up its locals
InitFence ==
    /\ text \in Documents
    /\ default_lang \in DefaultLangs
    /\ keep_fence_char \in BOOLEAN
    /\ lines = SplitLines(text)
    /\ v_issues = <<>>
    /\ in_block = FALSE
    /\ fence_char = NoneVal
    /\ fence_len = 0
    /\ open_line = 0
    /\ i = 1
    /\ depth = 0
    /\ issues = <<>>
    /\ issues2 = <<>>
    /\ out = <<>>
    /\ changes = <<>>
    /\ orig_series = <<>>
    /\ lang = <<>>
    /\ code_buf = <<>>
    /\ closed = FALSE
    /\ fixed = <<>>
    /\ ret = <<>>
    /\ pc = "validate1"
    /\ LatexIdle

InSweep1 == pc \in {"validate1", "revalidate1"} /\ i <= Len(lines)
InSweep2 == pc \in {"validate2", "revalidate2"} /\ i <= Len(lines)

\* the test of line 241 on the line m2 matched
ClosesBlock(line) ==
    /\ IsCloseFence(line)
    /\ FenceSeries(line)[1] = fence_char
    /\ Len(FenceSeries(line)) >= fence_len

\* Sweep1Open without the assignment of open_line
Sweep1Open_NoLine ==
    /\ InSweep1
    /\ ~in_block
    /\ IsOpenFence(lines[i])
    /\ in_block' = TRUE
    /\ fence_char' = FenceSeries(lines[i])[1]
    /\ fence_len' = Len(FenceSeries(lines[i]))
    /\ i' = i + 1
    /\ UNCHANGED <<text, out, fixed, pc, latexVars>>
    /\ UNCHANGED <<default_lang, keep_fence_char, lines, depth, v_issues, issues,
                   issues2, changes, orig_series, lang, code_buf, closed, ret,
                   open_line>>

\* lines 232-238
Sweep1Open ==
    /\ InSweep1
    /\ ~in_block
    /\ IsOpenFence(lines[i])
    /\ in_block' = TRUE
    /\ fence_char' = FenceSeries(lines[i])[1]
    /\ fence_len' = Len(FenceSeries(lines[i]))
    /\ open_line' = i
    /\ i' = i + 1
    /\ UNCHANGED <<text, out, fixed, pc, latexVars>>
    /\ UNCHANGED <<default_lang, keep_fence_char, lines, depth, v_issues, issues,
                   issues2, changes, orig_series, lang, code_buf, closed, ret>>

\* lines 239-244
Sweep1Close ==
    /\ InSweep1
    /\ in_block
    /\ ClosesBlock(lines[i])
    /\ in_block' = FALSE
    /\ fence_char' = NoneVal
    /\ fence_len' = 0
    /\ i' = i + 1
    /\ UNCHANGED <<text, out, fixed, pc, latexVars>>
    /\ UNCHANGED <<default_lang, keep_fence_char, lines, open_line, depth,
                   v_issues, issues, issues2, changes, orig_series, lang,
                   code_buf, closed, ret>>

\* lines 231-244, a line that neither opens nor closes
Sweep1Pass ==
    /\ InSweep1
    /\ IF in_block THEN ~ClosesBlock(lines[i]) ELSE ~IsOpenFence(lines[i])
    /\ i' = i + 1
    /\ UNCHANGED <<text, out, fixed, pc, latexVars>>
    /\ UNCHANGED fenceVars

\* lines 245-249: the first loop is over, the second is about to read line 1
Sweep1End ==
    /\ pc \in {"validate1", "revalidate1"}
    /\ i > Len(lines)
    /\ v_issues' = IF in_block THEN Append(v_issues, UnclosedIssue(open_line))
                   ELSE v_issues
    /\ depth' = 0
    /\ i' = 1
    /\ pc' = IF pc = "validate1" THEN "validate2" ELSE "revalidate2"
    /\ UNCHANGED <<text, out, fixed, latexVars>>
    /\ UNCHANGED <<default_lang, keep_fence_char, lines, in_block, fence_char,
                   fence_len, open_line, issues, issues2, changes, orig_series,
                   lang, code_buf, closed, ret>>

\* lines 250-257
Sweep2Step ==
    /\ InSweep2
    /\ IF IsOpenFence(lines[i])
       THEN /\ depth' = depth + 1
            /\ v_issues' = v_issues
       ELSE IF IsCloseFence(lines[i])
       THEN IF depth = 0
            THEN /\ v_issues' = Append(v_issues, StrayIssue(i))
                 /\ depth' = depth
            ELSE /\ depth' = depth - 1
                 /\ v_issues' = v_issues
       ELSE /\ depth' = depth
            /\ v_issues' = v_issues
    /\ i' = i + 1
    /\ UNCHANGED <<text, out, fixed, pc, latexVars>>
    /\ UNCHANGED <<default_lang, keep_fence_char, lines, in_block, fence_char,
                   fence_len, open_line, issues, issues2, changes, orig_series,
                   lang, code_buf, closed, ret>>

\* line 259, line 422, and lines 308-312 of the fix_code_fences call that
\* follows on either branch of line 424
ValidateReturn ==
    /\ pc = "validate2"
    /\ i > Len(lines)
    /\ issues' = v_issues
    /\ lines' = SplitLines(text)
    /\ out' = <<>>
    /\ changes' = <<>>
    /\ i' = 0
    /\ pc' = "fix"
    /\ UNCHANGED <<text, fixed, latexVars>>
    /\ UNCHANGED <<default_lang, keep_fence_char, in_block, fence_char,
                   fence_len, open_line, depth, v_issues, issues2, orig_series,
                   lang, code_buf, closed, ret>>

\* lines 313-319, the line about to be read being lines[i] of the code
FixCopyLine ==
    /\ pc = "fix"
    /\ i < Len(lines)
    /\ ~IsOpenFence(lines[i + 1])
    /\ out' = Append(out, lines[i + 1])
    /\ i' = i + 1
    /\ UNCHANGED <<text, fixed, pc, latexVars>>
    /\ UNCHANGED fenceVars

\* lines 313-315 and 321-330
FixOpenBlock ==
    /\ pc = "fix"
    /\ i < Len(lines)
    /\ IsOpenFence(lines[i + 1])
    /\ orig_series' = FenceSeries(lines[i + 1])
    /\ fence_char' = IF keep_fence_char THEN FenceSeries(lines[i + 1])[1] ELSE BT
    /\ fence_len' = Len(FenceSeries(lines[i + 1]))
    /\ lang' = Strip(FenceTag(lines[i + 1]))
    /\ code_buf' = <<>>
    /\ closed' = FALSE
    /\ i' = i + 1
    /\ pc' = "collect"
    /\ UNCHANGED <<text, out, fixed, latexVars>>
    /\ UNCHANGED <<default_lang, keep_fence_char, lines, in_block, open_line,
                   depth, v_issues, issues, issues2, changes, ret>>

\* the test of line 333 on the line m2 matched
ClosesCollected(line) ==
    /\ IsCloseFence(line)
    /\ FenceSeries(line)[1] = orig_series[1]
    /\ Len(FenceSeries(line)) >= fence_len

\* lines 331-336
CollectClose ==
    /\ pc = "collect"
    /\ i < Len(lines)
    /\ ClosesCollected(lines[i + 1])
    /\ closed' = TRUE
    /\ i' = i + 1
    /\ pc' = "rebuild"
    /\ UNCHANGED <<text, out, fixed, latexVars>>
    /\ UNCHANGED <<default_lang, keep_fence_char, lines, in_block, fence_char,
                   fence_len, open_line, depth, v_issues, issues, issues2,
                   changes, orig_series, lang, code_buf, ret>>

\* CollectBoundary consuming the boundary line
CollectBoundary_Consumes ==
    /\ pc = "collect"
    /\ i < Len(lines)
    /\ ~ClosesCollected(lines[i + 1])
    /\ LooksLikeSectionBoundary(lines, i)
    /\ closed' = TRUE
    /\ changes' = Append(changes,
           <<"Inserted missing closing fence before heading at line ", i + 1>>)
    /\ i' = i + 1
    /\ pc' = "rebuild"
    /\ UNCHANGED <<text, out, fixed, latexVars>>
    /\ UNCHANGED <<default_lang, keep_fence_char, lines, in_block, fence_char,
                   fence_len, open_line, depth, v_issues, issues, issues2,
                   orig_series, lang, code_buf, ret>>

\* lines 337-341
CollectBoundary ==
    /\ pc = "collect"
    /\ i < Len(lines)
    /\ ~ClosesCollected(lines[i + 1])
    /\ LooksLikeSectionBoundary(lines, i)
    /\ closed' = TRUE
    /\ changes' = Append(changes,
           <<"Inserted missing closing fence before heading at line ", i + 1>>)
    /\ pc' = "rebuild"
    /\ UNCHANGED <<text, i, out, fixed, latexVars>>
    /\ UNCHANGED <<default_lang, keep_fence_char, lines, in_block, fence_char,
                   fence_len, open_line, depth, v_issues, issues, issues2,
                   orig_series, lang, code_buf, ret>>

\* CollectLine reading the line without keeping it
CollectLine_Drops ==
    /\ pc = "collect"
    /\ i < Len(lines)
    /\ ~ClosesCollected(lines[i + 1])
    /\ ~LooksLikeSectionBoundary(lines, i)
    /\ i' = i + 1
    /\ UNCHANGED <<text, out, fixed, pc, latexVars>>
    /\ UNCHANGED fenceVars

\* lines 342-343
CollectLine ==
    /\ pc = "collect"
    /\ i < Len(lines)
    /\ ~ClosesCollected(lines[i + 1])
    /\ ~LooksLikeSectionBoundary(lines, i)
    /\ code_buf' = Append(code_buf, lines[i + 1])
    /\ i' = i + 1
    /\ UNCHANGED <<text, out, fixed, pc, latexVars>>
    /\ UNCHANGED <<default_lang, keep_fence_char, lines, in_block, fence_char,
                   fence_len, open_line, depth, v_issues, issues, issues2,
                   changes, orig_series, lang, closed, ret>>

\* line 344
CodeOf(buf) == JoinLines(buf)

\* SafeLen without the margin of one over the longest run
SafeLen_NoMargin(code, ch) ==
    LET longest == MaxRun(code, ch, 0)
    IN  IF longest < 3 THEN 3 ELSE longest

\* lines 347-348
SafeLen(code, ch) ==
    LET longest == MaxRun(code, ch, 0)
    IN  IF longest = 0 \/ longest + 1 < 3 THEN 3 ELSE longest + 1

\* NormLang with the default tried before the guesser
NormLang_DefaultFirst(tag, code, dflt) ==
    IF ToLower(tag) # <<>> THEN ToLower(tag)
    ELSE IF dflt # <<>> THEN ToLower(dflt)
    ELSE IF GuessLang(code) # <<>> THEN GuessLang(code)
    ELSE <<>>

\* lines 351-359: the tag of the rebuilt opener
NormLang(tag, code, dflt) ==
    IF ToLower(tag) # <<>> THEN ToLower(tag)
    ELSE IF GuessLang(code) # <<>> THEN GuessLang(code)
    ELSE IF dflt # <<>> THEN ToLower(dflt)
    ELSE <<>>

\* lines 352-359: the changes logged while the tag is chosen
LangChanges(tag, code, dflt) ==
    IF ToLower(tag) # <<>> THEN <<>>
    ELSE IF GuessLang(code) # <<>>
    THEN <<<<"Added guessed language tag: ", GuessLang(code)>>>>
    ELSE IF dflt # <<>>
    THEN <<<<"Added default language tag: ", ToLower(dflt)>>>>
    ELSE <<>>

\* lines 365-370: the changes logged while the block is rebuilt
RebuildChanges(tag, norm_lang, len, safe_len, was_closed) ==
    (IF len # safe_len
     THEN <<<<"Adjusted fence length from ", len, " to ", safe_len>>>>
     ELSE <<>>)
    \o (IF ~was_closed
        THEN <<<<"Inserted missing closing fence at end of block">>>>
        ELSE <<>>)
    \o (IF tag # norm_lang /\ (tag # <<>> \/ norm_lang # <<>>)
        THEN <<<<"Normalized language tag from '", tag, "' to '", norm_lang, "'">>>>
        ELSE <<>>)

\* line 362
Opener(ch, safe_len, norm_lang) ==
    Repeat(ch, safe_len) \o (IF norm_lang # <<>> THEN <<" ">> \o norm_lang ELSE <<>>)

\* Closer made of backticks whatever the fence character
Closer_Backtick(ch, safe_len) == Repeat(BT, safe_len)

\* line 363
Closer(ch, safe_len) == Repeat(ch, safe_len)

\* lines 344-375, reached by a break of the inner loop or by its running out
\* of lines
RebuildBlock ==
    /\ pc = "rebuild" \/ (pc = "collect" /\ i >= Len(lines))
    /\ LET code == CodeOf(code_buf)
           safe_len == SafeLen(code, fence_char)
           norm_lang == NormLang(lang, code, default_lang)
       IN  /\ changes' = changes \o LangChanges(lang, code, default_lang)
                   \o RebuildChanges(lang, norm_lang, fence_len, safe_len, closed)
           /\ out' = out \o <<Opener(fence_char, safe_len, norm_lang)>>
                   \o (IF code_buf # <<>> THEN <<code>> ELSE <<>>)
                   \o <<Closer(fence_char, safe_len)>>
    /\ pc' = "fix"
    /\ UNCHANGED <<text, i, fixed, latexVars>>
    /\ UNCHANGED <<default_lang, keep_fence_char, lines, in_block, fence_char,
                   fence_len, open_line, depth, v_issues, issues, issues2,
                   orig_series, lang, code_buf, closed, ret>>

\* lines 377-378 and 428-429: the first validation passed, ensure_fenced_code
\* returns what fix_code_fences returned
EnsureReturn ==
    /\ pc = "fix"
    /\ i >= Len(lines)
    /\ issues = <<>>
    /\ fixed' = JoinLines(out)
    /\ ret' = changes
    /\ pc' = "ensured"
    /\ UNCHANGED <<text, i, out, latexVars>>
    /\ UNCHANGED <<default_lang, keep_fence_char, lines, in_block, fence_char,
                   fence_len, open_line, depth, v_issues, issues, issues2,
                   changes, orig_series, lang, code_buf, closed>>

\* lines 377-378 and 425-426: the first validation failed, the fixed text is
\* validated again
Revalidate ==
    /\ pc = "fix"
    /\ i >= Len(lines)
    /\ issues # <<>>
    /\ fixed' = JoinLines(out)
    /\ ValidateEntry(JoinLines(out))
    /\ pc' = "revalidate1"
    /\ UNCHANGED <<text, out, latexVars>>
    /\ UNCHANGED <<default_lang, keep_fence_char, depth, issues, issues2,
                   changes, orig_series, lang, code_buf, closed, ret>>

\* RevalidateReturn leaving the validator's issues out of the returned list
RevalidateReturn_DropsIssues ==
    /\ pc = "revalidate2"
    /\ i > Len(lines)
    /\ issues2' = v_issues
    /\ ret' = changes \o (IF v_issues # <<>> THEN <<StillInvalid>> ELSE <<>>)
    /\ pc' = "ensured"
    /\ UNCHANGED <<text, i, out, fixed, latexVars>>
    /\ UNCHANGED <<default_lang, keep_fence_char, lines, in_block, fence_char,
                   fence_len, open_line, depth, v_issues, issues, changes,
                   orig_series, lang, code_buf, closed>>

\* lines 259 and 426-427
RevalidateReturn ==
    /\ pc = "revalidate2"
    /\ i > Len(lines)
    /\ issues2' = v_issues
    /\ ret' = issues \o changes
                \o (IF v_issues # <<>> THEN <<StillInvalid>> ELSE <<>>)
    /\ pc' = "ensured"
    /\ UNCHANGED <<text, i, out, fixed, latexVars>>
    /\ UNCHANGED <<default_lang, keep_fence_char, lines, in_block, fence_char,
                   fence_len, open_line, depth, v_issues, issues, changes,
                   orig_series, lang, code_buf, closed>>

NextFence ==
    \/ Sweep1Open
    \/ Sweep1Close
    \/ Sweep1Pass
    \/ Sweep1End
    \/ Sweep2Step
    \/ ValidateReturn
    \/ FixCopyLine
    \/ FixOpenBlock
    \/ CollectClose
    \/ CollectBoundary
    \/ CollectLine
    \/ RebuildBlock
    \/ EnsureReturn
    \/ Revalidate
    \/ RevalidateReturn

SpecFence == InitFence /\ [][NextFence]_vars

(***************************************************************************)
(* Claims about the code-fence validator and repairer.                     *)
(***************************************************************************)
\* a fence line that carries no tag: a bare run of at least 3 fence characters
BareFenceAt(k) == IsCloseFence(lines[k])

\* C2: in the counter sweep of validate_code_fences every closing-fence line
\* (a bare run of at least 3 fence characters with no tag) met at depth 0 is
\* reported as "Closing fence without opening on line N", N being its 1-based
\* line number, and a closing-fence line met at a positive depth decrements
\* the depth counter
C2_StrayClosingFenceReported ==
    [][(InSweep2 /\ BareFenceAt(i)) =>
          IF depth = 0
          THEN v_issues' = Append(v_issues, StrayIssue(i))
          ELSE depth' = depth - 1]_vars

\* C3: the text fix_code_fences returns passes validate_code_fences, so the
\* change list ensure_fenced_code returns never holds "Still invalid after
\* fix"
C3_NeverStillInvalid ==
    pc = "ensured" => \A k \in 1..Len(ret) : ret[k] # StillInvalid

(***************************************************************************)
(* Claims about the currency heuristic.                                    *)
(***************************************************************************)
RDigit == RIn(Digits)
RSep == RIn({".", ","})
\* (\d{1,3}(?:[.,]\d{3})*|\d+)(?:[.,]\d+)? , the numeral of line 295
ReNumeral ==
    RCat(<<RAlt(<<RCat(<<RDigit, ROpt(RDigit), ROpt(RDigit),
                         RStar(RCat(<<RSep, RDigit, RDigit, RDigit>>))>>),
                  RPlus(RDigit)>>),
           ROpt(RCat(<<RSep, RPlus(RDigit)>>))>>)

\* where the whole numeral that starts at index p ends, -1 if none starts there
NumeralEnd(s, p) ==
    IF Ends(ReNumeral, s, p) = {} THEN -1 ELSE SetMax(Ends(ReNumeral, s, p))

\* the scan is at a bare dollar sign outside the protected spans, not escaped
AtBareDollar == Unescaped /\ tok = TokD

\* the dollar sign at i is followed by a numeral that no dollar sign follows
CurrencyAmountAt(s, p) ==
    /\ NumeralEnd(s, p + 1) >= 0
    /\ ~(NumeralEnd(s, p + 1) < Len(s) /\ At(s, NumeralEnd(s, p + 1)) = "$")

\* the step emits the dollar sign verbatim and touches neither stack nor edits
EmittedAsCurrency ==
    /\ out' = Append(out, <<"$">>)
    /\ i' = i + 1
    /\ stack' = stack
    /\ edits' = edits

\* C11: a bare $ is emitted verbatim as currency, with no push or pop and no
\* edit, exactly when the stack is empty and the $ is followed by a numeral
\* that is not immediately followed by another $; with math open a $ is
\* never currency
C11_CurrencyExactly ==
    [][AtBareDollar =>
          (EmittedAsCurrency <=> (stack = <<>> /\ CurrencyAmountAt(text, i)))]_vars

(***************************************************************************)
(* Claims about the repairer's handling of blocks.                         *)
(***************************************************************************)
InsertedAtEnd == <<"Inserted missing closing fence at end of block">>
IsInsertedBeforeHeading(m) ==
    m[1] = "Inserted missing closing fence before heading at line "
IsInsertedClosing(m) == m = InsertedAtEnd \/ IsInsertedBeforeHeading(m)

\* the entries a step appends to the change list
NewChanges == SubSeq(changes', Len(changes) + 1, Len(changes'))

\* the inner loop of fix_code_fences has run out of lines inside a block
BlockOpenAtEnd == pc = "collect" /\ i >= Len(lines)

\* ensure_fenced_code has returned and the last block it rebuilt was still
\* open when the document ended
ReturnedUnclosed == pc = "ensured" /\ orig_series # <<>> /\ ~closed

LastLine(s) == SplitLines(s)[Len(SplitLines(s))]

\* C12: with keep_fence_char, when a block is still open at the end of the
\* document, the returned text ends with a closing-fence line made of the
\* opener's fence character, and exactly one "Inserted missing closing
\* fence" entry is logged for that block, the only "at end of block" entry
\* of the returned change list
C12_UnclosedBlockClosedAtEnd ==
    /\ [](ReturnedUnclosed /\ keep_fence_char =>
            /\ fixed # <<>>
            /\ IsCloseFence(LastLine(fixed))
            /\ LastLine(fixed) = Repeat(orig_series[1], Len(LastLine(fixed)))
            /\ Cardinality({k \in 1..Len(ret) : ret[k] = InsertedAtEnd}) = 1)
    /\ [][BlockOpenAtEnd =>
            Cardinality({k \in 1..Len(NewChanges) :
                            IsInsertedClosing(NewChanges[k])}) = 1]_vars

C12_Witness ==
    /\ ReturnedUnclosed
    /\ keep_fence_char
    /\ orig_series[1] = "~"
    /\ code_buf # <<>>

\* a section-boundary line: a line starting with one of the section markers,
\* or a heading of three to six # whose previous line is blank; idx 0-based
IsSectionBoundaryLine(ls, idx) ==
    \/ \E m \in SectionMarkers : StartsWith(ls[idx + 1], m, 0)
    \/ /\ IsAtxHeader(ls[idx + 1])
       /\ idx > 0
       /\ Strip(ls[idx]) = <<>>

HeadingChange(n) == <<"Inserted missing closing fence before heading at line ", n>>

\* the repairer is consuming a block and the line it reads is a boundary
AtBoundary == pc = "collect" /\ i < Len(lines) /\ IsSectionBoundaryLine(lines, i)

\* the block was just closed by the boundary line the cursor still points at
ClosedByBoundary ==
    /\ i < Len(lines)
    /\ changes # <<>>
    /\ changes[Len(changes)] = HeadingChange(i + 1)

IsCloserOf(line, ch) == Len(line) >= 3 /\ line = Repeat(ch, Len(line))

\* C13: a section-boundary line met while a block is consumed closes the
\* block: the change "Inserted missing closing fence before heading at line
\* N" is logged with N the line's 1-based number and the line is not
\* consumed; the rebuilt closer is emitted next; the boundary line is then
\* copied to the output right after the closer as ordinary content
C13_BoundaryClosesBlock ==
    /\ [][AtBoundary =>
            /\ changes' = Append(changes, HeadingChange(i + 1))
            /\ closed'
            /\ i' = i
            /\ code_buf' = code_buf
            /\ out' = out
            /\ pc' = "rebuild"]_vars
    /\ [][pc = "rebuild" /\ ClosedByBoundary =>
            /\ IsCloserOf(out'[Len(out')], fence_char)
            /\ SubSeq(out', 1, Len(out)) = out
            /\ i' = i
            /\ pc' = "fix"]_vars
    /\ [][pc = "fix" /\ ClosedByBoundary =>
            /\ IsCloserOf(out[Len(out)], fence_char)
            /\ out' = Append(out, lines[i + 1])
            /\ i' = i + 1]_vars

\* the heading that closed a block has been copied after the closer
C13_Witness ==
    /\ pc = "fix"
    /\ i > 0
    /\ changes # <<>>
    /\ changes[Len(changes)] = HeadingChange(i)
    /\ lines[i] = HeadingLine
    /\ Len(out) >= 2
    /\ out[Len(out)] = HeadingLine
    /\ IsCloserOf(out[Len(out) - 1], fence_char)

\* the line is a closing fence made of the character ch alone, of length at
\* least n
IsMatchingFence(line, ch, n) ==
    /\ IsCloseFence(line)
    /\ FenceSeries(line) = Repeat(ch, Len(FenceSeries(line)))
    /\ Len(FenceSeries(line)) >= n

\* C14: in the first sweep of the validator and in the repairer, a line
\* closes the open block only if it is a closing-fence line made of the
\* opener's fence character whose run is at least as long as the opener's;
\* every other line leaves the block open (in the repairer a section
\* boundary, which ends the block without being consumed, is set aside)
C14_OnlyMatchingFenceCloses ==
    /\ [][InSweep1 /\ in_block /\ ~in_block' =>
            IsMatchingFence(lines[i], fence_char, fence_len)]_vars
    /\ [][pc = "collect" /\ i < Len(lines) /\ closed' =>
            \/ IsMatchingFence(lines[i + 1], orig_series[1], fence_len)
            \/ LooksLikeSectionBoundary(lines, i)]_vars

\* the repairer is about to rebuild the block it has consumed
AtRebuild == pc = "rebuild" \/ BlockOpenAtEnd

\* the opener the rebuild step emits
NewOpener == out'[Len(out) + 1]

\* C15: the tag of a rebuilt opener is the opener's own tag lowercased when
\* it has one, whatever the guesser and the default say; else the guesser's
\* result when it returns one; else the lowercased default when one is
\* given; else the opener carries no tag
C15_LanguageTagPrecedence ==
    [][AtRebuild =>
          LET guessed == GuessLang(JoinLines(code_buf))
          IN  /\ IsOpenFence(NewOpener)
              /\ lang # <<>> => FenceTag(NewOpener) = ToLower(lang)
              /\ lang = <<>> /\ guessed # <<>> => FenceTag(NewOpener) = guessed
              /\ lang = <<>> /\ guessed = <<>> /\ default_lang # <<>> =>
                     FenceTag(NewOpener) = ToLower(default_lang)
              /\ lang = <<>> /\ guessed = <<>> /\ default_lang = <<>> =>
                     NewOpener = Repeat(fence_char, Len(NewOpener))]_vars

\* an untagged block whose content the guesser recognises was rebuilt while a
\* default was given
C15_Witness ==
    /\ pc = "fix"
    /\ default_lang # <<>>
    /\ lang = <<>>
    /\ code_buf = <<PrintLine>>
    /\ Len(out) >= 3
    /\ FenceTag(out[Len(out) - 2]) = LangPython

(***************************************************************************)
(* code_fences.py : validate_code_fences and fix_code_fences as functions  *)
(* of their arguments, for the claims that relate one call to another.     *)
(***************************************************************************)
RECURSIVE ValidateSweep1(_, _, _, _, _, _)
\* lines 231-244 from line k on: <<in_block, open_line>> when the loop ends
ValidateSweep1(ls, k, inb, ch, n, ol) ==
    IF k > Len(ls) THEN <<inb, ol>>
    ELSE IF ~inb
    THEN IF IsOpenFence(ls[k])
         THEN ValidateSweep1(ls, k + 1, TRUE, FenceSeries(ls[k])[1],
                             Len(FenceSeries(ls[k])), k)
         ELSE ValidateSweep1(ls, k + 1, inb, ch, n, ol)
    ELSE IF /\ IsCloseFence(ls[k])
            /\ FenceSeries(ls[k])[1] = ch
            /\ Len(FenceSeries(ls[k])) >= n
         THEN ValidateSweep1(ls, k + 1, FALSE, NoneVal, 0, ol)
         ELSE ValidateSweep1(ls, k + 1, inb, ch, n, ol)

RECURSIVE ValidateSweep2(_, _, _)
\* lines 250-257 from line k on: the issues the loop appends
ValidateSweep2(ls, k, d) ==
    IF k > Len(ls) THEN <<>>
    ELSE IF IsOpenFence(ls[k]) THEN ValidateSweep2(ls, k + 1, d + 1)
    ELSE IF IsCloseFence(ls[k])
    THEN IF d = 0 THEN <<StrayIssue(k)>> \o ValidateSweep2(ls, k + 1, d)
         ELSE ValidateSweep2(ls, k + 1, d - 1)
    ELSE ValidateSweep2(ls, k + 1, d)

\* validate_code_fences(t): the issue list; ok is its being empty
ValidateCodeFences(t) ==
    LET ls == SplitLines(t)
        s1 == ValidateSweep1(ls, 1, FALSE, NoneVal, 0, 0)
    IN  (IF s1[1] THEN <<UnclosedIssue(s1[2])>> ELSE <<>>)
            \o ValidateSweep2(ls, 1, 0)

RECURSIVE CollectFrom(_, _, _, _, _)
\* lines 330-343 from index j on, for an opener whose run starts with ch and
\* has length n
CollectFrom(ls, j, ch, n, buf) ==
    IF j >= Len(ls)
    THEN [code_buf |-> buf, closed |-> FALSE, heading |-> FALSE, next |-> j]
    ELSE IF /\ IsCloseFence(ls[j + 1])
            /\ FenceSeries(ls[j + 1])[1] = ch
            /\ Len(FenceSeries(ls[j + 1])) >= n
    THEN [code_buf |-> buf, closed |-> TRUE, heading |-> FALSE, next |-> j + 1]
    ELSE IF LooksLikeSectionBoundary(ls, j)
    THEN [code_buf |-> buf, closed |-> TRUE, heading |-> TRUE, next |-> j]
    ELSE CollectFrom(ls, j + 1, ch, n, Append(buf, ls[j + 1]))

RECURSIVE FixFrom(_, _, _, _)
\* lines 313-375 from index k on: <<the lines appended to out, the changes>>
FixFrom(ls, k, dflt, keep) ==
    IF k >= Len(ls) THEN <<<<>>, <<>>>>
    ELSE IF ~IsOpenFence(ls[k + 1])
    THEN LET rest == FixFrom(ls, k + 1, dflt, keep)
         IN  <<<<ls[k + 1]>> \o rest[1], rest[2]>>
    ELSE LET series == FenceSeries(ls[k + 1])
             ch == IF keep THEN series[1] ELSE BT
             tag == Strip(FenceTag(ls[k + 1]))
             c == CollectFrom(ls, k + 1, series[1], Len(series), <<>>)
             code == CodeOf(c.code_buf)
             safe_len == SafeLen(code, ch)
             norm_lang == NormLang(tag, code, dflt)
             rest == FixFrom(ls, c.next, dflt, keep)
         IN  <<<<Opener(ch, safe_len, norm_lang)>>
                  \o (IF c.code_buf # <<>> THEN <<code>> ELSE <<>>)
                  \o <<Closer(ch, safe_len)>>
                  \o rest[1],
               (IF c.heading
                THEN <<<<"Inserted missing closing fence before heading at line ",
                         c.next + 1>>>>
                ELSE <<>>)
                  \o LangChanges(tag, code, dflt)
                  \o RebuildChanges(tag, norm_lang, Len(series), safe_len, c.closed)
                  \o rest[2]>>

\* fix_code_fences(t, dflt, keep): <<fixed, changes>>
FixCodeFences(t, dflt, keep) ==
    LET r == FixFrom(SplitLines(t), 0, dflt, keep)
    IN  <<JoinLines(r[1]), r[2]>>

(***************************************************************************)
(* Claims that relate ensure_fenced_code, fix_code_fences and              *)
(* validate_code_fences.                                                   *)
(***************************************************************************)
EnsureReturned == pc = "ensured"

\* C16: ensure_fenced_code returns the text fix_code_fences returns for the
\* same arguments; its change list is that of fix_code_fences when the input
\* validated, and otherwise the validator's issues, then the changes of
\* fix_code_fences, then "Still invalid after fix" exactly when the fixed
\* text fails validation
C16_EnsureIsValidateThenFix ==
    EnsureReturned =>
        LET f == FixCodeFences(text, default_lang, keep_fence_char)
            is == ValidateCodeFences(text)
        IN  /\ fixed = f[1]
            /\ is = <<>> => ret = f[2]
            /\ is # <<>> =>
                  ret = is \o f[2]
                           \o (IF ValidateCodeFences(f[1]) # <<>>
                               THEN <<StillInvalid>> ELSE <<>>)

\* an invalid input whose fixed text is invalid too
C16_Witness ==
    /\ EnsureReturned
    /\ issues # <<>>
    /\ changes # <<>>
    /\ ret[Len(ret)] = StillInvalid
    /\ ValidateCodeFences(fixed) # <<>>

\* C17: the edit list fix_latex_delimiters returns describes all changes made
\* to the text: when the returned text differs from the input, the edit list
\* is not empty
C17_EditsDescribeAllChanges ==
    Returned /\ fixed # text => edits # <<>>

\* C18: the change list fix_code_fences returns describes all changes: when
\* it is empty, the returned text is made of the lines of the input (the
\* input's lines joined by newlines, so that a line break lost at the very
\* end of the text does not count as a change)
C18_ChangesDescribeAllChanges ==
    EnsureReturned /\ changes = <<>> => fixed = JoinLines(SplitLines(text))

\* the first sweep of the validator has read every line
Sweep1Over == pc \in {"validate1", "revalidate1"} /\ i > Len(lines)

IsUnclosedIssue(m) == m[1] = "Unclosed code fence started on line "

\* line j closes a block that line k opened
ClosesOpener(j, k) ==
    /\ IsCloseFence(lines[j])
    /\ FenceSeries(lines[j])[1] = FenceSeries(lines[k])[1]
    /\ Len(FenceSeries(lines[j])) >= Len(FenceSeries(lines[k]))

\* C19: validate_code_fences reports "Unclosed code fence started on line L"
\* exactly when its first sweep ends inside a block, L being the 1-based
\* number of the opener of the block still open (an opening-fence line that
\* no later line closes); no call reports more than one such issue
C19_UnclosedReportedOnce ==
    /\ [][Sweep1Over =>
            IF in_block
            THEN /\ v_issues' = <<UnclosedIssue(open_line)>>
                 /\ open_line \in 1..Len(lines)
                 /\ IsOpenFence(lines[open_line])
                 /\ \A j \in (open_line + 1)..Len(lines) : ~ClosesOpener(j, open_line)
            ELSE v_issues' = <<>>]_vars
    /\ [](Cardinality({k \in 1..Len(v_issues) : IsUnclosedIssue(v_issues[k])}) <= 1)
    /\ [][\A k \in 1..Len(v_issues') :
             IsUnclosedIssue(v_issues'[k]) /\ v_issues' # v_issues => Sweep1Over]_vars

\* a block was closed and a later one is reported as unclosed
C19_Witness ==
    /\ pc = "validate2"
    /\ v_issues = <<UnclosedIssue(3)>>

(***************************************************************************)
(* Claims about the align pass.                                            *)
(***************************************************************************)
\* $$ newline \begin{aligned} newline body newline \end{aligned} newline $$
CanonicalForm(body) ==
    <<"$", "$", "\n">> \o BeginAligned \o <<"\n">> \o body \o <<"\n">>
        \o EndAligned \o <<"\n", "$", "$">>

\* the body as the pass tidies it: doubled dollar signs removed, row breaks
\* put between jammed equations, surrounding white space stripped
TidyBody(content) ==
    Strip(InsertRowBreaks(
        ReplaceAll(ReplaceAll(content, <<"$", "$", "$", "$">>, <<>>),
                   <<"$", "$">>, <<>>)))

\* where the first block of s at or after index p starts, -1 if there is none
FirstBlockFrom(s, p) ==
    LET starts == {a \in p..(Len(s) - 1) : AlignCloseAt(s, a) >= 0}
    IN  IF starts = {} THEN -1 ELSE SetMin(starts)

\* the index after the \end of the block that starts at a
BlockEnd(s, a) == AlignCloseAt(s, a) + Len(EndBrace) + Len(AlignEnvAt(s, a)) + 1

RECURSIVE BlocksRewritten(_, _, _, _)
\* t from index q on is s from index p on with every block, taken from left
\* to right, replaced by its canonical form and all else kept
BlocksRewritten(s, p, t, q) ==
    LET a == FirstBlockFrom(s, p)
    IN  IF a < 0 THEN Slice(s, p, Len(s)) = Slice(t, q, Len(t))
        ELSE LET canon == CanonicalForm(
                              TidyBody(Slice(s, AlignBodyStart(s, a),
                                             AlignCloseAt(s, a))))
                 qa == q + (a - p)
             IN  /\ qa + Len(canon) <= Len(t)
                 /\ Slice(t, q, qa) = Slice(s, p, a)
                 /\ StartsWith(t, canon, qa)
                 /\ BlocksRewritten(s, BlockEnd(s, a), t, qa + Len(canon))

\* the input is one block and nothing else
OnlyABlock(s) == AlignCloseAt(s, 0) >= 0 /\ BlockEnd(s, 0) = Len(s)

\* the scan closed math that was still open where the text ends
ClosedAtEndOfDocument ==
    \E k \in 1..Len(edits) :
        edits[k].kind = "insert" /\ edits[k].reason[3] = " at end of document"

StartsAndEndsCanonical(s) ==
    /\ StartsWith(Strip(s), <<"$", "$">>, 0)
    /\ Len(Strip(s)) >= 2
    /\ StartsWith(Strip(s), <<"$", "$">>, Len(Strip(s)) - 2)
    /\ IsSubstring(BeginAligned, s)

AtDelimiterToken == Scanning /\ ~InProtected(i, protected) /\ tok # <<>>

\* the number of consecutive backslashes right before index p of s
BackslashesBefore(s, p) ==
    p - SetMin({a \in 0..p : \A b \in a..(p - 1) : At(s, b) = BS})

\* the step emits the token verbatim and leaves the stack and the edit list
\* as they were
EmittedVerbatim ==
    /\ out' = Append(out, tok)
    /\ i' = i + Len(tok)
    /\ stack' = stack
    /\ edits' = edits

\* the step takes the token for an opener or a closer: it opens or closes
\* math, or it records the repair of a stray or mismatched closer
ProcessedAsDelimiter == stack' # stack \/ edits' # edits

\* the currency heuristic applies to the token (line 391)
TakenForCurrency == tok = TokD /\ stack = <<>> /\ LooksLikeCurrency(text, i)

\* C21 as stated: a delimiter token preceded in the original text by an odd
\* number of consecutive backslashes is emitted verbatim and leaves the stack
\* and the edit list unchanged; a token preceded by an even number (zero
\* included) of backslashes is processed as a delimiter
C21_EscapeCheck ==
    [][AtDelimiterToken =>
          IF BackslashesBefore(text, i) % 2 = 1
          THEN EmittedVerbatim
          ELSE ProcessedAsDelimiter]_vars

\* C21, amended: a delimiter token preceded by an odd number of consecutive
\* backslashes is emitted verbatim and leaves the stack and the edit list
\* unchanged; a token preceded by an even number (zero included) of
\* backslashes is processed as a delimiter, unless it is a $ met while no math
\* is open that the currency heuristic takes for the start of an amount,
\* which is emitted verbatim as well
C21_EscapeCheckUnlessCurrency ==
    [][AtDelimiterToken =>
          IF BackslashesBefore(text, i) % 2 = 1 \/ TakenForCurrency
          THEN EmittedVerbatim
          ELSE ProcessedAsDelimiter]_vars

\* a $ behind one backslash has been emitted verbatim while math was open,
\* and the math is still open
C21_Witness ==
    /\ pc = "scan"
    /\ i >= 2
    /\ ~InProtected(i - 1, protected)
    /\ At(text, i - 1) = "$"
    /\ BackslashesBefore(text, i - 1) = 1
    /\ out # <<>> /\ out[Len(out)] = TokD
    /\ stack # <<>> /\ stack[Len(stack)][3] < i - 2
    /\ edits = <<>>

\* the protected spans that hold index p
SpansAt(p) ==
    {k \in 1..Len(protected) : protected[k][1] <= p /\ p < protected[k][2]}

\* the end of the protected span that holds index p
SpanEndAt(p) == protected[CHOOSE k \in SpansAt(p) : TRUE][2]

\* C22: when the cursor of the scan lies in a protected span, the rest of the
\* span is appended to the output unchanged and the cursor moves to the end of
\* the span, while the stack of open math and the edit list stay exactly as
\* they were, so that math opened before the span is still open after it and
\* a newline inside the span triggers no end-of-line close
C22_ProtectedSpanCopied ==
    [][Scanning /\ SpansAt(i) # {} =>
          /\ Cardinality(SpansAt(i)) = 1
          /\ out' = Append(out, Slice(text, i, SpanEndAt(i)))
          /\ i' = SpanEndAt(i)
          /\ stack' = stack
          /\ edits' = edits]_vars

\* with close_on_newline set, a protected span that holds a newline has been
\* copied while math opened before the span was open: the math is still open
\* and no edit is recorded
C22_Witness ==
    /\ pc = "scan"
    /\ close_on_newline
    /\ \E k \in 1..Len(protected) :
          /\ protected[k][2] = i
          /\ \E j \in protected[k][1]..(i - 1) : At(text, j) = "\n"
          /\ out # <<>>
          /\ out[Len(out)] = Slice(text, protected[k][1], i)
          /\ stack # <<>>
          /\ stack[Len(stack)][3] < protected[k][1]
    /\ edits = <<>>

(***************************************************************************)
(* Termination.  Both programs are sequential code without I/O, so a run   *)
(* fails to return only by looping forever or by having no step to take.   *)
(* SpecEither starts either program.                                       *)
(***************************************************************************)
NextEither == Next \/ NextFence

SpecEither == (Init \/ InitFence) /\ [][NextEither]_vars

\* fix_latex_delimiters or ensure_fenced_code has returned
Terminated == pc \in {"done", "ensured"}

\* the loops and calls still ahead of the run
Phase ==
    CASE pc = "scan" -> 2
      [] pc = "scanned" -> 1
      [] pc = "done" -> 0
      [] pc = "validate1" -> 5
      [] pc = "validate2" -> 4
      [] pc \in {"fix", "collect", "rebuild"} -> 3
      [] pc = "revalidate1" -> 2
      [] pc = "revalidate2" -> 1
      [] pc = "ensured" -> 0

\* what the loop the run is in still has to read: characters for the scan,
\* lines for the sweeps and for the repairer, where the inner loop and the
\* rebuild of a block come before the next iteration of the outer loop
Remaining ==
    CASE pc = "scan" -> Len(text) - i
      [] pc \in {"validate1", "validate2", "revalidate1", "revalidate2"} ->
            Len(lines) + 1 - i
      [] pc = "fix" -> 3 * (Len(lines) - i)
      [] pc = "rebuild" -> 3 * (Len(lines) - i) + 1
      [] pc = "collect" -> 3 * (Len(lines) - i) + 2
      [] OTHER -> 0

\* the step makes progress: it enters a later phase, or it stays in its loop
\* with less to read
Progresses ==
    \/ Phase' < Phase
    \/ Phase' = Phase /\ Remaining' < Remaining

\* some branch of the loop body, or the code after the loop, applies
CanStep ==
    CASE pc = "scan" ->
            \/ i >= Len(text)
            \/ InProtected(i, protected)
            \/ Unprotected /\ At(text, i) = "\n" /\ close_on_newline /\ stack # <<>>
            \/ PastNewline /\ tok = <<>>
            \/ PastNewline /\ tok # <<>>
                 /\ CountTrailingBackslashes(Slice(text, 0, i)) % 2 = 1
            \/ Unescaped /\ ~Classified
            \/ Classified /\ IsOpener(tok, stack)
            \/ Classified /\ ~IsOpener(tok, stack) /\ stack = <<>>
            \/ Classified /\ ~IsOpener(tok, stack) /\ stack # <<>>
      [] pc = "scanned" -> TRUE
      [] pc \in {"validate1", "revalidate1"} ->
            \/ i > Len(lines)
            \/ InSweep1 /\ ~in_block /\ IsOpenFence(lines[i])
            \/ InSweep1 /\ in_block /\ ClosesBlock(lines[i])
            \/ InSweep1 /\ IF in_block THEN ~ClosesBlock(lines[i])
                                      ELSE ~IsOpenFence(lines[i])
      [] pc \in {"validate2", "revalidate2"} -> i > Len(lines) \/ InSweep2
      [] pc = "fix" ->
            \/ i >= Len(lines)
            \/ i < Len(lines) /\ ~IsOpenFence(lines[i + 1])
            \/ i < Len(lines) /\ IsOpenFence(lines[i + 1])
      [] pc = "collect" ->
            \/ i >= Len(lines)
            \/ i < Len(lines) /\ ClosesCollected(lines[i + 1])
            \/ i < Len(lines) /\ ~ClosesCollected(lines[i + 1])
                 /\ LooksLikeSectionBoundary(lines, i)
            \/ i < Len(lines) /\ ~ClosesCollected(lines[i + 1])
                 /\ ~LooksLikeSectionBoundary(lines, i)
      [] pc = "rebuild" -> TRUE
      [] OTHER -> FALSE

\* C23: every call terminates.  No run goes on for ever: every step makes
\* progress, what remains to be read never being negative; each iteration of
\* the delimiter scan strictly advances the cursor, by a token, a character or
\* a whole protected span; each iteration of a sweep of the validator reads
\* the next line; each iteration of the outer loop of the repairer consumes at
\* least one line, the inner loop never moving the cursor back, and the step
\* of the inner loop that leaves the cursor in place, the one taken at a
\* section boundary, leaves the loop.  No run stops before the return: until
\* then a step applies
C23_Terminates ==
    /\ [][Progresses]_vars
    /\ [](Remaining >= 0)
    /\ [][Scanning =>
            /\ i' > i /\ i' <= Len(text)
            /\ \/ tok # <<>> /\ i' = i + Len(tok)
               \/ i' = i + 1
               \/ InProtected(i, protected) /\ ~InProtected(i', protected)]_vars
    /\ [][InSweep1 \/ InSweep2 => i' = i + 1]_vars
    /\ [][pc = "fix" /\ i < Len(lines) => i' = i + 1]_vars
    /\ [][pc = "collect" /\ i < Len(lines) =>
            /\ i' \in {i, i + 1}
            /\ i' = i => pc' = "rebuild" /\ IsSectionBoundaryLine(lines, i)]_vars
    /\ [][pc = "rebuild" \/ (pc = "collect" /\ i >= Len(lines)) =>
            i' = i /\ pc' = "fix"]_vars
    /\ [](~Terminated => CanStep)

\* ensure_fenced_code has returned after a section boundary ended a block
\* without being consumed by the inner loop
C23_Witness ==
    /\ pc = "ensured"
    /\ \E k \in 1..Len(changes) : \E n \in 1..Len(SplitLines(text)) :
          /\ changes[k] = HeadingChange(n)
          /\ IsSectionBoundaryLine(SplitLines(text), n - 1)

(***************************************************************************)
(* Claims about the blocks fix_code_fences rebuilds.                       *)
(***************************************************************************)
\* the place of a change string in the order the claim gives: fence length
\* changed, closing fence inserted, tag guessed, tag filled from the default,
\* tag text changed
KindOf(m) ==
    CASE m[1] = "Adjusted fence length from " -> 1
      [] IsInsertedClosing(m) -> 2
      [] m[1] = "Added guessed language tag: " -> 3
      [] m[1] = "Added default language tag: " -> 4
      [] m[1] = "Normalized language tag from '" -> 5

\* the change strings of the block being rebuilt: the one the inner loop
\* logged at a section boundary, then those of the rebuild step
BlockChanges ==
    (IF pc = "rebuild" /\ ClosedByBoundary
     THEN <<changes[Len(changes)]>> ELSE <<>>) \o NewChanges

InClaimedOrder(cs) ==
    \A a, b \in 1..Len(cs) : a < b => KindOf(cs[a]) < KindOf(cs[b])

\* C24: for a single fenced block, fix_code_fences appends its change strings
\* in this order: fence length changed, closing fence inserted, language tag
\* guessed, language tag filled from the default, tag text changed
C24_ChangeOrder ==
    [][AtRebuild => InClaimedOrder(BlockChanges)]_vars

\* the longest run of the character ch in s, 0 if there is none
LongestRun(s, ch) ==
    SetMax({n \in 0..Len(s) : IsSubstring(Repeat(ch, n), s)})

\* the closer the rebuild step emits
NewCloser == out'[Len(out')]

\* the character the claim gives to the rebuilt fences
EmittedChar == IF keep_fence_char THEN orig_series[1] ELSE BT

\* the length the claim gives to the rebuilt fences
EmittedLen ==
    LET longest == LongestRun(JoinLines(code_buf), EmittedChar)
    IN  IF 1 + longest > 3 THEN 1 + longest ELSE 3

\* C25: for every block fix_code_fences rebuilds, the opener and the closer
\* use the same fence character and the same length, max(3, 1 + the longest
\* run of that character in the block's content); the character is the
\* original opener's when keep_fence_char holds and a backtick when it does
\* not
C25_FenceCharAndLength ==
    [][AtRebuild =>
          /\ FenceSeries(NewOpener) = Repeat(EmittedChar, EmittedLen)
          /\ NewCloser = Repeat(EmittedChar, EmittedLen)]_vars

\* a tilde block whose content holds a run of four backticks has been
\* rebuilt with backtick fences of length five
C25_Witness ==
    /\ pc = "fix"
    /\ ~keep_fence_char
    /\ orig_series = Tilde3
    /\ code_buf = <<Fence4>>
    /\ Len(out) >= 3
    /\ out[Len(out)] = Repeat(BT, 5)
    /\ FenceSeries(out[Len(out) - 2]) = Repeat(BT, 5)

(***************************************************************************)
(* code_fences.py : the lines fix_code_fences and the first sweep of       *)
(* validate_code_fences consume as openers and as closers, by 1-based line *)
(* number.                                                                 *)
(***************************************************************************)
RECURSIVE FixOpeners(_, _)
\* lines 313-330 from index k on: the lines taken as openers
FixOpeners(ls, k) ==
    IF k >= Len(ls) THEN {}
    ELSE IF ~IsOpenFence(ls[k + 1]) THEN FixOpeners(ls, k + 1)
    ELSE LET series == FenceSeries(ls[k + 1])
             c == CollectFrom(ls, k + 1, series[1], Len(series), <<>>)
         IN  {k + 1} \cup FixOpeners(ls, c.next)

RECURSIVE FixClosers(_, _)
\* lines 331-336 from index k on: the lines consumed as closers
FixClosers(ls, k) ==
    IF k >= Len(ls) THEN {}
    ELSE IF ~IsOpenFence(ls[k + 1]) THEN FixClosers(ls, k + 1)
    ELSE LET series == FenceSeries(ls[k + 1])
             c == CollectFrom(ls, k + 1, series[1], Len(series), <<>>)
         IN  (IF c.closed /\ ~c.heading THEN {c.next} ELSE {})
                \cup FixClosers(ls, c.next)

RECURSIVE SelectLines(_, _, _)
\* the lines of ls from line k on whose number is not in S
SelectLines(ls, k, S) ==
    IF k > Len(ls) THEN <<>>
    ELSE (IF k \in S THEN <<>> ELSE <<ls[k]>>) \o SelectLines(ls, k + 1, S)

\* the input lines fix_code_fences consumes neither as opener nor as closer
KeptLines(t) ==
    LET ls == SplitLines(t)
    IN  SelectLines(ls, 1, FixOpeners(ls, 0) \cup FixClosers(ls, 0))

RECURSIVE IsSubsequence(_, _)
\* the entries of a occur in b, in the same order
IsSubsequence(a, b) ==
    IF a = <<>> THEN TRUE
    ELSE IF b = <<>> THEN FALSE
    ELSE IF Head(a) = Head(b) THEN IsSubsequence(Tail(a), Tail(b))
    ELSE IsSubsequence(a, Tail(b))

RECURSIVE SplitOnNewline(_)
\* s.split("\n"): the list that "\n".join turns into s
SplitOnNewline(s) ==
    LET a == Find(s, <<"\n">>, 0)
    IN  IF a < 0 THEN <<s>>
        ELSE <<Slice(s, 0, a)>> \o SplitOnNewline(Slice(s, a + 1, Len(s)))

\* the list of lines the returned text was joined from (line 377)
JoinedLines == IF SplitLines(text) = <<>> THEN <<>> ELSE SplitOnNewline(fixed)

\* the list ol holds every kept line of the input once, in order, and besides
\* them two fence lines for each block
OnlyFencesAdded(ol) ==
    /\ IsSubsequence(KeptLines(text), ol)
    /\ Len(ol) = Len(KeptLines(text))
                    + 2 * Cardinality(FixOpeners(SplitLines(text), 0))

\* C26 as stated: fix_code_fences changes only fence lines: every input line
\* that is not consumed as a block opener or as a block closer appears in the
\* output exactly once, unmodified and in the same relative order, the lines
\* of the output being read as those of the input are (splitlines)
C26_OnlyFenceLinesChange ==
    EnsureReturned => OnlyFencesAdded(SplitLines(fixed))

\* C26, amended: every input line that is not consumed as a block opener or
\* as a block closer occurs exactly once, unmodified and in the same relative
\* order, in the list of lines the returned text is joined from; the text
\* has no newline after its last line, so that an empty last line shows in it
\* only as a final newline
C26_OnlyFenceLinesChangeInJoinedList ==
    EnsureReturned => OnlyFencesAdded(JoinedLines)

\* a text with a line before a block and a line inside it has been repaired:
\* both lines are kept, and a closer is added
C26_Witness ==
    /\ EnsureReturned
    /\ SplitLines(text) = <<<<"x">>, Fence3, <<"x">>>>
    /\ KeptLines(text) = <<<<"x">>, <<"x">>>>
    /\ JoinedLines = <<<<"x">>, Fence3, <<"x">>, Fence3>>

(***************************************************************************)
(* latex.py : LaTeXFixer.fix and fix_latex_delimiters as functions of      *)
(* their arguments, for the claims that relate one call to another.  The   *)
(* stack holds the opener tokens alone, each as a 1-tuple.                 *)
(***************************************************************************)
\* the result of a step that emits chunk and records the edits es, before
\* the result of the rest of the scan
ScanEmit(chunk, es, rest) ==
    [out |-> chunk \o rest.out, edits |-> es \o rest.edits]

RECURSIVE ScanFrom(_, _, _, _, _)
\* lines 346-455 from index p on with the stack stk
ScanFrom(s, con, spans, p, stk) ==
    LET t == MatchToken(s, p)
        top == stk[Len(stk)][1]
        popped == SubSeq(stk, 1, Len(stk) - 1)
        AtEnd(o) == EndOfDocumentEdit(o, Len(s))
        AtEol(o) == InsertEdit(o, " at end of line", p)
    IN  IF p >= Len(s)
        THEN [out |-> Flat(MapSeq(PoppedOpeners(stk), Matching)),
              edits |-> MapSeq(PoppedOpeners(stk), AtEnd)]
        ELSE IF InProtected(p, spans)
        THEN LET k == SetMin({j \in 1..Len(spans) :
                                 spans[j][1] <= p /\ p < spans[j][2]})
             IN  ScanEmit(Slice(s, p, spans[k][2]), <<>>,
                          ScanFrom(s, con, spans, spans[k][2], stk))
        ELSE IF At(s, p) = "\n" /\ con /\ stk # <<>>
        THEN ScanEmit(Flat(MapSeq(PoppedOpeners(stk), Matching)) \o <<"\n">>,
                      MapSeq(PoppedOpeners(stk), AtEol),
                      ScanFrom(s, con, spans, p + 1, <<>>))
        ELSE IF t = <<>>
        THEN ScanEmit(<<At(s, p)>>, <<>>, ScanFrom(s, con, spans, p + 1, stk))
        ELSE IF CountTrailingBackslashes(Slice(s, 0, p)) % 2 = 1
        THEN ScanEmit(t, <<>>, ScanFrom(s, con, spans, p + Len(t), stk))
        ELSE IF t = TokD /\ stk = <<>> /\ LooksLikeCurrency(s, p)
        THEN ScanEmit(<<"$">>, <<>>, ScanFrom(s, con, spans, p + 1, stk))
        ELSE IF IsOpener(t, stk)
        THEN IF stk # <<>>
             THEN ScanEmit(Matching(top) \o t,
                      <<InsertEdit(top, " before opening a new math block", p)>>,
                      ScanFrom(s, con, spans, p + Len(t), Append(popped, <<t>>)))
             ELSE ScanEmit(t, <<>>,
                      ScanFrom(s, con, spans, p + Len(t), Append(stk, <<t>>)))
        ELSE IF stk = <<>>
        THEN ScanEmit(<<>>, <<DeleteEdit(t, p)>>,
                      ScanFrom(s, con, spans, p + Len(t), stk))
        ELSE IF t = Matching(top)
        THEN ScanEmit(t, <<>>, ScanFrom(s, con, spans, p + Len(t), popped))
        ELSE ScanEmit(Matching(top), <<ReplaceEdit(t, top, p)>>,
                      ScanFrom(s, con, spans, p + Len(t), popped))

\* LaTeXFixer(close_on_newline=con).fix(s): [out, edits]
LaTeXFix(s, con) == ScanFrom(s, con, ProtectedSpans(s), 0, <<>>)

\* fix_latex_delimiters(s, con): <<fixed, edits>>
FixLatexDelimiters(s, con) ==
    <<FixAlignEnvironments(LaTeXFix(s, con).out), LaTeXFix(s, con).edits>>

\* the functions compute what the steps of the scan compute
FunctionsAgreeWithScan ==
    Returned => FixLatexDelimiters(text, close_on_newline) = <<fixed, edits>>

\* C27: fix_latex_delimiters is idempotent on its own output: applied, with
\* the same close_on_newline, to the text it returned, it returns that same
\* text and an empty edit list
C27_IdempotentOnOutput ==
    Returned => FixLatexDelimiters(fixed, close_on_newline) = <<fixed, <<>>>>

(***************************************************************************)
(* The edit list as a patch of the input.  Edit positions are offsets in   *)
(* the input; an edit is applied where its position has moved to after     *)
(* the edits before it, shift being the length they added.                 *)
(***************************************************************************)
FixReturned == pc = "scanned"

PositionsOrdered(es, n) ==
    /\ \A k \in 1..Len(es) : es[k].pos \in 0..n
    /\ \A k \in 1..Len(es) - 1 : es[k].pos <= es[k + 1].pos

\* edit e applies to cur at index q: what it removes is there
EditApplies(e, cur, q) ==
    /\ q >= 0
    /\ q + Len(e.before) <= Len(cur)
    /\ Slice(cur, q, q + Len(e.before)) = e.before
    /\ e.kind = "insert" => e.before = <<>>
    /\ e.kind = "delete" => e.after = <<>>

\* cur with e.before at index q replaced by e.after
ApplyEdit(e, cur, q) ==
    Slice(cur, 0, q) \o e.after \o Slice(cur, q + Len(e.before), Len(cur))

RECURSIVE ApplyEdits(_, _, _, _)
\* the edits es[k..] applied in list order to cur; <<"no patch">> when an
\* edit does not apply
ApplyEdits(es, k, cur, shift) ==
    IF k > Len(es) THEN cur
    ELSE IF ~EditApplies(es[k], cur, es[k].pos + shift)
    THEN <<"no patch">>
    ELSE ApplyEdits(es, k + 1, ApplyEdit(es[k], cur, es[k].pos + shift),
                    shift + Len(es[k].after) - Len(es[k].before))

\* C28: the edit list of LaTeXFixer.fix is a faithful, ordered patch: the
\* edit positions are non-decreasing and lie in 0..len(text), and applying
\* the edits to the input in list order (insert after at the position,
\* delete before at the position, replace before by after at the position)
\* yields exactly the text that fix returned
C28_EditsAreAPatch ==
    FixReturned =>
        /\ PositionsOrdered(edits, Len(text))
        /\ ApplyEdits(edits, 1, text, 0) = fixed

\* fix has returned three edits, an insertion among them and an edit that
\* removes text among them, so that later edits apply at shifted positions
C28_Witness ==
    /\ FixReturned
    /\ Len(edits) = 3
    /\ \E k \in 1..2 : edits[k].kind = "insert" /\ edits[k + 1].pos > edits[k].pos
    /\ \E k \in 1..3 : edits[k].kind \in {"delete", "replace"}
    /\ fixed # text

(***************************************************************************)
(* fix_code_fences applied to its own output.                              *)
(***************************************************************************)
\* the text and change list of fix_code_fences, held when ensure_fenced_code
\* returns, are those of the function
FixResultHeld ==
    EnsureReturned =>
        FixCodeFences(text, default_lang, keep_fence_char) = <<fixed, changes>>

\* C29: fix_code_fences is idempotent: applied with the same options to the
\* text it returned, it yields the same text and an empty change list
C29_FixIsIdempotent ==
    EnsureReturned =>
        FixCodeFences(fixed, default_lang, keep_fence_char) = <<fixed, <<>>>>

(***************************************************************************)
(* The block structure the validator's first sweep sees, against the one   *)
(* the repairer sees.  Lines are numbered from 1.                          *)
(***************************************************************************)
RECURSIVE ValidateOpeners(_, _, _, _, _)
\* lines 231-244 from line k on: the lines taken as openers (233-238)
ValidateOpeners(ls, k, inb, ch, n) ==
    IF k > Len(ls) THEN {}
    ELSE IF ~inb
    THEN IF IsOpenFence(ls[k])
         THEN {k} \cup ValidateOpeners(ls, k + 1, TRUE, FenceSeries(ls[k])[1],
                                       Len(FenceSeries(ls[k])))
         ELSE ValidateOpeners(ls, k + 1, inb, ch, n)
    ELSE IF /\ IsCloseFence(ls[k])
            /\ FenceSeries(ls[k])[1] = ch
            /\ Len(FenceSeries(ls[k])) >= n
         THEN ValidateOpeners(ls, k + 1, FALSE, NoneVal, 0)
         ELSE ValidateOpeners(ls, k + 1, inb, ch, n)

RECURSIVE ValidateClosers(_, _, _, _, _)
\* lines 231-244 from line k on: the lines taken as closers (240-244)
ValidateClosers(ls, k, inb, ch, n) ==
    IF k > Len(ls) THEN {}
    ELSE IF ~inb
    THEN IF IsOpenFence(ls[k])
         THEN ValidateClosers(ls, k + 1, TRUE, FenceSeries(ls[k])[1],
                              Len(FenceSeries(ls[k])))
         ELSE ValidateClosers(ls, k + 1, inb, ch, n)
    ELSE IF /\ IsCloseFence(ls[k])
            /\ FenceSeries(ls[k])[1] = ch
            /\ Len(FenceSeries(ls[k])) >= n
         THEN {k} \cup ValidateClosers(ls, k + 1, FALSE, NoneVal, 0)
         ELSE ValidateClosers(ls, k + 1, inb, ch, n)

\* validate_code_fences reports the input as ok
InputValid == ValidateCodeFences(text) = <<>>

SameBlockStructure ==
    /\ FixOpeners(SplitLines(text), 0)
          = ValidateOpeners(SplitLines(text), 1, FALSE, NoneVal, 0)
    /\ FixClosers(SplitLines(text), 0)
          = ValidateClosers(SplitLines(text), 1, FALSE, NoneVal, 0)

NoClosingFenceInserted ==
    \A k \in 1..Len(changes) : ~IsInsertedClosing(changes[k])

\* C30: the validator and the repairer agree on block structure: for every
\* text that validate_code_fences reports as ok, fix_code_fences treats as
\* openers and closers exactly the lines the validator's first sweep
\* treated as openers and closers, and therefore logs no "Inserted missing
\* closing fence" change
C30_ValidatorAndRepairerAgree ==
    EnsureReturned /\ InputValid =>
        SameBlockStructure /\ NoClosingFenceInserted

====
